---- MODULE Spec2Model ----
(***************************************************************************)
(* Method dispatch thunks (lib/IRGen/GenThunk.cpp): the registry of thunk  *)
(* entry points, the emission of one thunk (argument preparation, method   *)
(* lookup, call, return), the execution of the emitted thunk, and the      *)
(* method lookup function of a resilient class.                            *)
(***************************************************************************)
EXTENDS Integers, Sequences, FiniteSets, TLC

\* ------------------------------------------------------------- bounds
NumRefs == 2          \* method references known to the registry
MaxRequests == 4      \* registry requests in one run
NumThreads == 2       \* concurrent definers
MaxParams == 2        \* declared parameters besides self
MaxIndirectResults == 1
MaxBindings == 1      \* generic-binding words
NumMethods == 3       \* vtable entries of the class

VARIABLES
  \* IRGenModule (registry)
  GlobalFuncs,        \* LinkEntity -> llvm::Function* (0 is the null pointer)
  funcs,              \* the module's functions, by address 1..Len(funcs)
  requests,           \* the requests served so far, with what each returned
  \* concurrent definers
  tpc, tref, tentry,  \* per thread: position, declRef, local `f`
  \* one IRGenThunk and the IRGenFunction it emits into
  declRef, stage, thunk,
  NDEBUG,             \* the compiler is built with its assert()s compiled out
  \* one invocation of the emitted thunk
  rt,
  \* emitMethodLookupFunction and one call of the emitted function
  classDecl,          \* the class: its methods in vtable order
  PointerAuth,        \* IGM.getOptions().PointerAuth.SwiftClassMethods is set
  lk,                 \* the lookup function and one call of it
  \* one Vector<count, Element>: its initialization and the swaps after it
  vec

regVars == <<GlobalFuncs, funcs, requests>>
thrVars == <<tpc, tref, tentry>>
thunkVars == <<declRef, NDEBUG, stage, thunk, rt>>
lookupVars == <<classDecl, PointerAuth, lk>>
vectorVars == <<vec>>
vars == <<GlobalFuncs, funcs, requests, tpc, tref, tentry,
          declRef, NDEBUG, stage, thunk, rt, classDecl, PointerAuth, lk, vec>>

\* ------------------------------------------------------------- values
\* A machine value (llvm::Value*): what it is, for which parameter/index,
\* and which component of it.
Val(k, i, c) == [k |-> k, i |-> i, c |-> c]
Null == Val("null", 0, 0)
Bad == Val("bad", 0, 0)

SeqOf(n, F(_)) == [x \in 1..n |-> F(x)]

RECURSIVE Flatten(_)
Flatten(ss) == IF ss = <<>> THEN <<>> ELSE Head(ss) \o Flatten(Tail(ss))

Min(a, b) == IF a < b THEN a ELSE b

\* Explosion primitives used by the thunk (out of values: the Bad value)
TakeLast(e) == IF e = <<>> THEN Bad ELSE e[Len(e)]
DropLast(e) == IF e = <<>> THEN <<>> ELSE SubSeq(e, 1, Len(e) - 1)
ClaimNext(e) == IF e = <<>> THEN Bad ELSE Head(e)
ClaimN(e, n) == SubSeq(e, 1, Min(n, Len(e)))
DropN(e, n) == SubSeq(e, Min(n, Len(e)) + 1, Len(e))

\* ------------------------------------------------- method references
\* How one declared parameter is passed:
\*   address  - a SIL address parameter (not an object), one pointer
\*   indirect - an object whose native schema requires indirect passing
\*   packed   - an object of two components passed in one native word
\*   split    - an object of two components passed in two native words
\*   empty    - an object with an empty native schema
ParamKinds == {"address", "indirect", "packed", "split", "empty"}

IsObject(kind) == kind # "address"
RequiresIndirect(kind) == kind = "indirect"
NativeSize(kind) ==
  CASE kind = "packed" -> 1
    [] kind = "split" -> 2
    [] kind = "indirect" -> 1
    [] OTHER -> 0
SchemaEmpty(kind) == NativeSize(kind) = 0

ParamLists == UNION {[1..n -> ParamKinds] : n \in 0..MaxParams}

\* What the thunk reads of a SILDeclRef and its lowered function type.
\* Asynchronous and YieldingCoroutine exclude each other, and a yielding
\* coroutine has no results of its own.
DeclRefs ==
  {d \in [isAsync : BOOLEAN, isCoroutine : BOOLEAN, isWitnessMethod : BOOLEAN,
          hasErrorResult : BOOLEAN,
          directResult : {"void", "direct", "indirect"},
          numIndirectResults : 0..MaxIndirectResults,
          params : ParamLists,
          numBindings : 0..MaxBindings,
          selfIsMetatype : BOOLEAN] :
     /\ ~(d.isAsync /\ d.isCoroutine)
     /\ d.isCoroutine => (d.directResult = "void" /\ d.numIndirectResults = 0)
     /\ d.isWitnessMethod => ~d.selfIsMetatype}

\* The function types that claim both conventions at once, which an earlier
\* stage of the compiler should never produce.
InvalidDeclRefs ==
  {d \in [isAsync : {TRUE}, isCoroutine : {TRUE}, isWitnessMethod : BOOLEAN,
          hasErrorResult : BOOLEAN,
          directResult : {"void"},
          numIndirectResults : {0},
          params : ParamLists,
          numBindings : 0..MaxBindings,
          selfIsMetatype : BOOLEAN] :
     d.isWitnessMethod => ~d.selfIsMetatype}

\* The value of parameter p as the implementation takes it (its explosion).
Components(kind, p) ==
  CASE kind = "address" -> <<Val("addr", p, 0)>>
    [] kind = "empty" -> <<>>
    [] OTHER -> <<Val("comp", p, 1), Val("comp", p, 2)>>

\* The same value in the native calling convention, as the thunk's caller
\* passes it.
MapIntoNative(kind, p) ==
  CASE kind = "address" -> <<Val("addr", p, 0)>>
    [] kind = "indirect" -> <<Val("ptr", p, 0)>>
    [] kind = "packed" -> <<Val("pack", p, 0)>>
    [] kind = "split" -> <<Val("nat", p, 1), Val("nat", p, 2)>>
    [] OTHER -> <<>>

\* NativeConventionSchema::mapFromNative: the native words of one parameter
\* back to the components of its explosion.
MapFromNative(kind, native) ==
  CASE kind = "packed" ->
         IF Len(native) = 1 /\ native[1].k = "pack"
           THEN <<Val("comp", native[1].i, 1), Val("comp", native[1].i, 2)>>
           ELSE <<Bad, Bad>>
    [] kind = "split" ->
         [c \in 1..2 |->
            IF c <= Len(native) /\ native[c].k = "nat"
              THEN Val("comp", native[c].i, native[c].c) ELSE Bad]
    [] OTHER -> <<>>

\* LoadableTypeInfo::loadAsTake from the address the caller passed.
LoadAsTake(addr) ==
  IF addr.k = "ptr" THEN <<Val("comp", addr.i, 1), Val("comp", addr.i, 2)>>
  ELSE <<Bad, Bad>>

\* IGF.collectParameters(): the thunk's incoming values under the ordinary
\* and coroutine conventions.
CollectParameters(d) ==
  (IF d.isCoroutine THEN <<Val("buffer", 0, 0)>> ELSE <<>>)
  \o (IF d.directResult = "indirect" THEN <<Val("sret", 0, 0)>> ELSE <<>>)
  \o SeqOf(d.numIndirectResults, LAMBDA i : Val("indres", i, 0))
  \o Flatten(SeqOf(Len(d.params), LAMBDA p : MapIntoNative(d.params[p], p)))
  \o SeqOf(d.numBindings, LAMBDA i : Val("bind", i, 0))
  \o <<Val("self", 0, 0)>>
  \o (IF d.hasErrorResult THEN <<Val("errslot", 0, 0)>> ELSE <<>>)
  \o (IF d.isWitnessMethod
        THEN <<Val("metadata", 0, 0), Val("wtable", 0, 0)>> ELSE <<>>)

\* The async context frame: what a projected field holds.
AsyncField(name, i) ==
  CASE name = "localContext" -> Val("self", 0, 0)
    [] name = "selfMetadata" -> Val("metadata", 0, 0)
    [] name = "selfWitnessTable" -> Val("wtable", 0, 0)
    [] name = "error" -> Val("errslot", 0, 0)
    [] name = "indirectReturn" -> Val("indres", i, 0)
    [] name = "argument" -> Val("arg", i, 0)
    [] OTHER -> Val("bind", i, 0)

\* ---------------------------------------------------------- IRGenThunk
\* The IRGenThunk object and the IRGenFunction it emits into, right after
\* construction.
NoCall == [fn |-> [dispatch |-> "none", table |-> Null, derived |-> FALSE],
           self |-> Null, args |-> <<>>,
           SelfMetadata |-> Null, SelfWitnessTable |-> Null,
           errorSlot |-> Null, dest |-> Null, how |-> "none"]

\* A method that is not asynchronous has no async function pointer.
NoAsyncFunctionPointer == [linkage |-> "none", constant |-> FALSE, size |-> -1]

\* IRGenModule::getAddrOfAsyncFunctionPointer: the record as a declaration,
\* which other code can address without the thunk's body.
GetAddrOfAsyncFunctionPointer ==
  [linkage |-> "declaration", constant |-> FALSE, size |-> -1]

\* IRGenModule::defineAsyncFunctionPointer: the record defined with its
\* initializer and marked a true constant.
DefineAsyncFunctionPointer(size) ==
  [linkage |-> "definition", constant |-> TRUE, size |-> size]

IRGenThunk(d) ==
  [indirectReturnSlot |-> Null, selfValue |-> Null, errorResult |-> Null,
   SelfMetadata |-> Null, SelfWitnessTable |-> Null,
   params |-> <<>>,
   original |-> <<>>,               \* the incoming values not yet claimed
   callerErrorResultSlot |-> Null,  \* IGF.setCallerErrorResultSlot
   taken |-> <<>>,                  \* addresses loaded with load-as-take
   order |-> <<>>,                  \* the parts of the call, as handled
   insts |-> <<>>,                  \* what the builder has emitted
   callee |-> NoCall.fn,
   call |-> NoCall,
   result |-> <<>>,
   states |-> <<>>,                 \* the states emit() has passed
   asyncFunctionPointer |->         \* the record of the thunk, if it has one
     IF d.isAsync THEN GetAddrOfAsyncFunctionPointer
     ELSE NoAsyncFunctionPointer]

\* getAsyncContextLayout(...).getSize(): one word per field of the frame.
AsyncLayoutSize(d) ==
  1 + (IF d.isWitnessMethod THEN 2 ELSE 0)
    + (IF d.hasErrorResult THEN 1 ELSE 0)
    + d.numIndirectResults + Len(d.params) + d.numBindings

\* The async prologue without the definition of the async function pointer.
EmitEntry_NoRecord(d, t) ==
  IF d.isAsync
    THEN [t EXCEPT !.insts = @ \o <<"setupAsync", "asyncFunctionEntry">>]
    ELSE t

\* emit(), lines 286-293: the async prologue.
EmitEntry(d, t) ==
  IF d.isAsync
    THEN [t EXCEPT !.insts = @ \o <<"setupAsync", "asyncFunctionEntry">>,
                   !.asyncFunctionPointer =
                      DefineAsyncFunctionPointer(AsyncLayoutSize(d))]
    ELSE t

\* The parameter walk with an indirectly passed object's address handed on
\* as it came, not loaded.
RECURSIVE PrepareEachParameter_Verbatim(_, _, _)
PrepareEachParameter_Verbatim(kinds, p, t) ==
  IF p > Len(kinds) THEN t
  ELSE
    LET kind == kinds[p] IN
    IF IsObject(kind) /\ ~RequiresIndirect(kind)
      THEN PrepareEachParameter_Verbatim(kinds, p + 1,
             [t EXCEPT !.original = DropN(@, NativeSize(kind)),
                       !.params = @ \o MapFromNative(kind,
                           ClaimN(t.original, NativeSize(kind)))])
      ELSE PrepareEachParameter_Verbatim(kinds, p + 1,
             [t EXCEPT !.original = DropN(@, 1),
                       !.params = Append(@, ClaimNext(t.original))])

\* The parameter walk with the value loaded from an indirect address added
\* to the outgoing stream twice.
RECURSIVE PrepareEachParameter_TakenTwice(_, _, _)
PrepareEachParameter_TakenTwice(kinds, p, t) ==
  IF p > Len(kinds) THEN t
  ELSE
    LET kind == kinds[p] IN
    IF IsObject(kind)
      THEN IF RequiresIndirect(kind)
             THEN PrepareEachParameter_TakenTwice(kinds, p + 1,
                    [t EXCEPT !.original = DropN(@, 1),
                              !.taken = Append(@, ClaimNext(t.original)),
                              !.insts = Append(@, "loadAsTake"),
                              !.params = @ \o LoadAsTake(ClaimNext(t.original))
                                           \o LoadAsTake(ClaimNext(t.original))])
             ELSE PrepareEachParameter_TakenTwice(kinds, p + 1,
                    [t EXCEPT !.original = DropN(@, NativeSize(kind)),
                              !.params = @ \o MapFromNative(kind,
                                  ClaimN(t.original, NativeSize(kind)))])
      ELSE PrepareEachParameter_TakenTwice(kinds, p + 1,
             [t EXCEPT !.original = DropN(@, 1),
                       !.params = Append(@, ClaimNext(t.original))])

\* The parameter walk with one native word claimed for every object that is
\* passed directly, whatever the size of its schema.
RECURSIVE PrepareEachParameter_OneWord(_, _, _)
PrepareEachParameter_OneWord(kinds, p, t) ==
  IF p > Len(kinds) THEN t
  ELSE
    LET kind == kinds[p] IN
    IF IsObject(kind)
      THEN IF RequiresIndirect(kind)
             THEN PrepareEachParameter_OneWord(kinds, p + 1,
                    [t EXCEPT !.original = DropN(@, 1),
                              !.taken = Append(@, ClaimNext(t.original)),
                              !.insts = Append(@, "loadAsTake"),
                              !.params = @ \o LoadAsTake(ClaimNext(t.original))])
             ELSE IF ~SchemaEmpty(kind)
                    THEN PrepareEachParameter_OneWord(kinds, p + 1,
                           [t EXCEPT !.original = DropN(@, 1),
                                     !.params = @ \o MapFromNative(kind,
                                         ClaimN(t.original, 1))])
                    ELSE PrepareEachParameter_OneWord(kinds, p + 1, t)
      ELSE PrepareEachParameter_OneWord(kinds, p + 1,
             [t EXCEPT !.original = DropN(@, 1),
                       !.params = Append(@, ClaimNext(t.original))])

\* prepareArguments(), lines 209-242: the declared parameters but self.
RECURSIVE PrepareEachParameter(_, _, _)
PrepareEachParameter(kinds, p, t) ==
  IF p > Len(kinds) THEN t
  ELSE
    LET kind == kinds[p] IN
    IF IsObject(kind)
      THEN IF RequiresIndirect(kind)
             THEN PrepareEachParameter(kinds, p + 1,
                    [t EXCEPT !.original = DropN(@, 1),
                              !.taken = Append(@, ClaimNext(t.original)),
                              !.insts = Append(@, "loadAsTake"),
                              !.params = @ \o LoadAsTake(ClaimNext(t.original))])
             ELSE IF ~SchemaEmpty(kind)
                    THEN PrepareEachParameter(kinds, p + 1,
                           [t EXCEPT !.original = DropN(@, NativeSize(kind)),
                                     !.params = @ \o MapFromNative(kind,
                                         ClaimN(t.original, NativeSize(kind)))])
                    ELSE PrepareEachParameter(kinds, p + 1, t)
      ELSE PrepareEachParameter(kinds, p + 1,
             [t EXCEPT !.original = DropN(@, 1),
                       !.params = Append(@, ClaimNext(t.original))])

\* prepareArguments(), lines 132-137: the receiver, from the local context.
LoadLocalContext(d, t) ==
  [t EXCEPT !.selfValue = AsyncField("localContext", 0),
            !.insts = Append(@, "load"),
            !.order = Append(@, "receiver")]

\* The witness table loaded before the type descriptor.
LoadWitnessMetadata_TableFirst(d, t) ==
  IF d.isWitnessMethod
    THEN [t EXCEPT !.SelfMetadata = AsyncField("selfMetadata", 0),
                   !.SelfWitnessTable = AsyncField("selfWitnessTable", 0),
                   !.insts = @ \o <<"load", "load">>,
                   !.order = @ \o <<"wtable", "metadata">>]
    ELSE t

\* lines 139-153: the type descriptor, then the witness table.
LoadWitnessMetadata(d, t) ==
  IF d.isWitnessMethod
    THEN [t EXCEPT !.SelfMetadata = AsyncField("selfMetadata", 0),
                   !.SelfWitnessTable = AsyncField("selfWitnessTable", 0),
                   !.insts = @ \o <<"load", "load">>,
                   !.order = @ \o <<"metadata", "wtable">>]
    ELSE t

\* lines 155-159: the error field of the frame becomes the caller error slot.
InstallAsyncErrorSlot(d, t) ==
  IF d.hasErrorResult
    THEN [t EXCEPT !.callerErrorResultSlot = AsyncField("error", 0),
                   !.order = Append(@, "error")]
    ELSE t

\* lines 161-165: the indirect-return addresses, in index order.
LoadIndirectReturns(d, t) ==
  [t EXCEPT !.params = @ \o SeqOf(d.numIndirectResults,
                                  LAMBDA i : AsyncField("indirectReturn", i)),
            !.insts = @ \o SeqOf(d.numIndirectResults, LAMBDA i : "load"),
            !.order = @ \o SeqOf(d.numIndirectResults, LAMBDA i : "indirect")]

\* The arguments read with one field more than the method has arguments.
LoadArguments_OnePastEnd(d, t) ==
  [t EXCEPT !.params = @ \o SeqOf(Len(d.params) + 1,
                                  LAMBDA i : AsyncField("argument", i)),
            !.insts = @ \o SeqOf(Len(d.params) + 1, LAMBDA i : "load"),
            !.order = @ \o SeqOf(Len(d.params) + 1, LAMBDA i : "arg")]

\* lines 167-171: the arguments, in index order.
LoadArguments(d, t) ==
  [t EXCEPT !.params = @ \o SeqOf(Len(d.params),
                                  LAMBDA i : AsyncField("argument", i)),
            !.insts = @ \o SeqOf(Len(d.params), LAMBDA i : "load"),
            !.order = @ \o SeqOf(Len(d.params), LAMBDA i : "arg")]

\* lines 173-177: the generic bindings of the frame, added to the stream.
LoadBindings(d, t) ==
  IF d.numBindings > 0
    THEN [t EXCEPT !.params = @ \o SeqOf(d.numBindings,
                                         LAMBDA i : AsyncField("bindings", i)),
                   !.order = Append(@, "bindings")]
    ELSE t

\* The asynchronous convention with the arguments read before the
\* indirect-return addresses.
PrepareAsyncArguments_ArgumentsFirst(d, t) ==
  LoadBindings(d, LoadIndirectReturns(d, LoadArguments(d,
    InstallAsyncErrorSlot(d, LoadWitnessMetadata(d, LoadLocalContext(d, t))))))

\* prepareArguments(), lines 129-177: the asynchronous convention.
PrepareAsyncArguments(d, t) ==
  LoadBindings(d, LoadArguments(d, LoadIndirectReturns(d,
    InstallAsyncErrorSlot(d, LoadWitnessMetadata(d, LoadLocalContext(d, t))))))

\* The type descriptor taken off the tail before the witness table.
StripWitnessMetadata_MetadataFirst(d, t) ==
  IF d.isWitnessMethod
    THEN [t EXCEPT !.SelfMetadata = TakeLast(t.original),
                   !.SelfWitnessTable = TakeLast(DropLast(t.original)),
                   !.original = DropLast(DropLast(@)),
                   !.order = @ \o <<"metadata", "wtable">>]
    ELSE t

\* lines 181-184: the witness table, then the type descriptor, off the tail.
StripWitnessMetadata(d, t) ==
  IF d.isWitnessMethod
    THEN [t EXCEPT !.SelfWitnessTable = TakeLast(t.original),
                   !.SelfMetadata = TakeLast(DropLast(t.original)),
                   !.original = DropLast(DropLast(@)),
                   !.order = @ \o <<"wtable", "metadata">>]
    ELSE t

\* The error slot taken off the tail but not installed as the caller error
\* slot.
StripErrorSlot_NotInstalled(d, t) ==
  IF d.hasErrorResult
    THEN [t EXCEPT !.errorResult = TakeLast(t.original),
                   !.original = DropLast(@),
                   !.order = Append(@, "error")]
    ELSE t

\* lines 186-189: the error slot, off the tail, installed at once.
StripErrorSlot(d, t) ==
  IF d.hasErrorResult
    THEN [t EXCEPT !.errorResult = TakeLast(t.original),
                   !.callerErrorResultSlot = TakeLast(t.original),
                   !.original = DropLast(@),
                   !.order = Append(@, "error")]
    ELSE t

\* lines 191-193: a coroutine's leading resume buffer goes over unchanged.
TransferResumeBuffer(d, t) ==
  IF d.isCoroutine
    THEN [t EXCEPT !.params = @ \o ClaimN(t.original, 1),
                   !.original = DropN(@, 1),
                   !.order = Append(@, "buffer")]
    ELSE t

\* line 195: the receiver is the last value left.
TakeSelf(d, t) ==
  [t EXCEPT !.selfValue = TakeLast(t.original),
            !.original = DropLast(@),
            !.order = Append(@, "receiver")]

\* lines 197-206: the destination of an indirectly returned direct result,
\* then the formal indirect results.
ClaimIndirectResults(d, t) ==
  LET t1 == IF d.directResult = "indirect"
              THEN [t EXCEPT !.indirectReturnSlot = ClaimNext(t.original),
                             !.original = DropN(@, 1),
                             !.order = Append(@, "indirect")]
              ELSE t
  IN [t1 EXCEPT !.params = @ \o ClaimN(t1.original, d.numIndirectResults),
                !.original = DropN(@, d.numIndirectResults),
                !.order = @ \o SeqOf(d.numIndirectResults, LAMBDA i : "indirect")]

\* lines 208-242: each declared parameter.
PrepareParameters(d, t) ==
  PrepareEachParameter(d.params, 1,
    [t EXCEPT !.order = @ \o SeqOf(Len(d.params), LAMBDA i : "arg")])

\* The values left after the parameter walk dropped, not passed along.
PassAlong_Discard(d, t) ==
  [t EXCEPT !.original = <<>>,
            !.order = @ \o (IF t.original # <<>> THEN <<"bindings">> ELSE <<>>)]

\* lines 244-246: anything else, such as generic arguments, is passed along.
PassAlong(d, t) ==
  [t EXCEPT !.params = @ \o t.original,
            !.original = <<>>,
            !.order = @ \o (IF t.original # <<>> THEN <<"bindings">> ELSE <<>>)]

\* prepareArguments(), lines 179-247: the ordinary and coroutine conventions.
PrepareOrdinaryArguments(d, t) ==
  PassAlong(d, PrepareParameters(d, ClaimIndirectResults(d, TakeSelf(d,
    TransferResumeBuffer(d, StripErrorSlot(d, StripWitnessMetadata(d,
      [t EXCEPT !.original = CollectParameters(d)])))))))

\* IRGenThunk::prepareArguments
PrepareArguments(d, t) ==
  IF d.isAsync THEN PrepareAsyncArguments(d, t)
  ELSE PrepareOrdinaryArguments(d, t)

\* The class form of dispatch chosen whatever the declaring context.
LookupMethod_AlwaysVirtual(d, t) ==
  IF d.selfIsMetatype
    THEN [t EXCEPT !.callee = [dispatch |-> "virtual",
                               table |-> t.selfValue,
                               derived |-> FALSE],
                   !.insts = Append(@, "virtualMethodValue")]
    ELSE [t EXCEPT !.callee = [dispatch |-> "virtual",
                               table |-> t.selfValue,
                               derived |-> TRUE],
                   !.insts = @ \o <<"heapMetadataRef", "virtualMethodValue">>]

\* The class form of dispatch with the metadata always derived from the
\* receiver, also when the receiver is a metatype.
LookupMethod_AlwaysLoadMetadata(d, t) ==
  IF d.isWitnessMethod
    THEN [t EXCEPT !.callee = [dispatch |-> "witness",
                               table |-> t.SelfWitnessTable,
                               derived |-> FALSE],
                   !.insts = Append(@, "witnessMethodValue")]
    ELSE [t EXCEPT !.callee = [dispatch |-> "virtual",
                               table |-> t.selfValue,
                               derived |-> TRUE],
                   !.insts = @ \o <<"heapMetadataRef", "virtualMethodValue">>]

\* IRGenThunk::lookupMethod: the callee, as the function found in a table
\* and the receiver passed to it.
LookupMethod(d, t) ==
  IF d.isWitnessMethod
    THEN [t EXCEPT !.callee = [dispatch |-> "witness",
                               table |-> t.SelfWitnessTable,
                               derived |-> FALSE],
                   !.insts = Append(@, "witnessMethodValue")]
    ELSE IF d.selfIsMetatype
           THEN [t EXCEPT !.callee = [dispatch |-> "virtual",
                                      table |-> t.selfValue,
                                      derived |-> FALSE],
                          !.insts = Append(@, "virtualMethodValue")]
           ELSE [t EXCEPT !.callee = [dispatch |-> "virtual",
                                      table |-> t.selfValue,
                                      derived |-> TRUE],
                          !.insts = @ \o <<"heapMetadataRef", "virtualMethodValue">>]

\* The values a call leaves in the explosion it is emitted to.
ResultExplosion(d) ==
  IF d.directResult = "void" THEN <<>> ELSE <<Val("result", 0, 1)>>

\* emit(), lines 323-325: an Address built on a null slot stops the
\* compiler.
CanEmitCall(d, t) ==
  d.isCoroutine \/ d.directResult # "indirect" \/ t.indirectReturnSlot # Null

\* The call emitted to an explosion also when the result is returned
\* indirectly, with the thunk storing the result to the destination itself.
EmitCall_StoreResult(d, t) ==
  LET c == [fn |-> t.callee, self |-> t.selfValue, args |-> t.params,
            SelfMetadata |-> t.SelfMetadata,
            SelfWitnessTable |-> t.SelfWitnessTable,
            errorSlot |-> t.callerErrorResultSlot,
            dest |-> Null, how |-> "explosion"]
  IN IF d.isCoroutine
       THEN [t EXCEPT !.call = [c EXCEPT !.how = "coroutine"],
                      !.result = <<Val("result", 0, 1)>>,
                      !.insts = Append(@, "coroutineCall")]
       ELSE IF d.directResult = "indirect"
              THEN [t EXCEPT !.call = c,
                             !.insts = @ \o <<"call", "store">>]
              ELSE [t EXCEPT !.call = c,
                             !.result = ResultExplosion(d),
                             !.insts = Append(@, "call")]

\* emit(), lines 299-332: the call, to memory or to an explosion.
EmitCall(d, t) ==
  LET c == [fn |-> t.callee, self |-> t.selfValue, args |-> t.params,
            SelfMetadata |-> t.SelfMetadata,
            SelfWitnessTable |-> t.SelfWitnessTable,
            errorSlot |-> t.callerErrorResultSlot,
            dest |-> Null, how |-> "explosion"]
  IN IF d.isCoroutine
       THEN [t EXCEPT !.call = [c EXCEPT !.how = "coroutine"],
                      !.result = <<Val("result", 0, 1)>>,
                      !.insts = Append(@, "coroutineCall")]
       ELSE IF d.directResult = "indirect"
              THEN [t EXCEPT !.call = [c EXCEPT !.how = "memory",
                                                !.dest = t.indirectReturnSlot],
                             !.insts = Append(@, "call")]
              ELSE [t EXCEPT !.call = c,
                             !.result = ResultExplosion(d),
                             !.insts = Append(@, "call")]

\* The return without the coroutine case: a coroutine thunk goes on to the
\* result paths of an ordinary thunk.
EmitReturn_NoCoroutineCase(d, t) ==
  IF d.isAsync
    THEN [t EXCEPT !.insts = @ \o <<"asyncReturn", "asyncExit">>]
    ELSE IF t.result = <<>>
           THEN [t EXCEPT !.insts = Append(@, "retVoid")]
           ELSE [t EXCEPT !.insts = Append(@, "scalarReturn")]

\* The return without the asynchronous case: an asynchronous thunk ends with
\* an ordinary return.
EmitReturn_AsyncOrdinary(d, t) ==
  IF d.isCoroutine
    THEN [t EXCEPT !.insts = Append(@, "ret")]
    ELSE IF t.result = <<>>
           THEN [t EXCEPT !.insts = Append(@, "retVoid")]
           ELSE [t EXCEPT !.insts = Append(@, "scalarReturn")]

\* The return of an ordinary thunk always made from the result stream, empty
\* or not.
EmitReturn_AlwaysScalar(d, t) ==
  IF d.isCoroutine
    THEN [t EXCEPT !.insts = Append(@, "ret")]
    ELSE IF d.isAsync
           THEN [t EXCEPT !.insts = @ \o <<"asyncReturn", "asyncExit">>]
           ELSE [t EXCEPT !.insts = Append(@, "scalarReturn")]

\* emit(), lines 306-314 and 334-352: the return.
EmitReturn(d, t) ==
  IF d.isCoroutine
    THEN [t EXCEPT !.insts = Append(@, "ret")]
    ELSE IF d.isAsync
           THEN [t EXCEPT !.insts = @ \o <<"asyncReturn", "asyncExit">>]
           ELSE IF t.result = <<>>
                  THEN [t EXCEPT !.insts = Append(@, "retVoid")]
                  ELSE [t EXCEPT !.insts = Append(@, "scalarReturn")]

\* IRGenThunk::emit, from the prologue to the return.
Emit(d) ==
  EmitReturn(d, EmitCall(d, LookupMethod(d, PrepareArguments(d,
    EmitEntry(d, IRGenThunk(d))))))

\* ------------------------------------- calling the implementation directly
\* What the implementation is passed when it is called without the thunk.
DirectArgs(d) ==
  IF d.isAsync
    THEN SeqOf(d.numIndirectResults, LAMBDA i : Val("indres", i, 0))
         \o SeqOf(Len(d.params), LAMBDA p : Val("arg", p, 0))
         \o SeqOf(d.numBindings, LAMBDA i : Val("bind", i, 0))
    ELSE (IF d.isCoroutine THEN <<Val("buffer", 0, 0)>> ELSE <<>>)
         \o SeqOf(d.numIndirectResults, LAMBDA i : Val("indres", i, 0))
         \o Flatten(SeqOf(Len(d.params), LAMBDA p : Components(d.params[p], p)))
         \o SeqOf(d.numBindings, LAMBDA i : Val("bind", i, 0))

DirectCall(d) ==
  [fn |-> IF d.isWitnessMethod
            THEN [dispatch |-> "witness", table |-> Val("wtable", 0, 0),
                  derived |-> FALSE]
            ELSE [dispatch |-> "virtual", table |-> Val("self", 0, 0),
                  derived |-> ~d.selfIsMetatype],
   self |-> Val("self", 0, 0),
   args |-> DirectArgs(d),
   SelfMetadata |-> IF d.isWitnessMethod THEN Val("metadata", 0, 0) ELSE Null,
   SelfWitnessTable |-> IF d.isWitnessMethod THEN Val("wtable", 0, 0) ELSE Null,
   errorSlot |-> IF d.hasErrorResult THEN Val("errslot", 0, 0) ELSE Null,
   dest |-> IF ~d.isCoroutine /\ d.directResult = "indirect"
              THEN Val("sret", 0, 0) ELSE Null,
   how |-> IF d.isCoroutine THEN "coroutine"
           ELSE IF d.directResult = "indirect" THEN "memory" ELSE "explosion"]

\* ------------------------------------------- running the emitted thunk
\* The memory the caller owns: the destination of an indirectly returned
\* result, the error slot and the formal indirect results.
Addrs ==
  {Val("sret", 0, 0), Val("errslot", 0, 0)}
    \cup {Val("indres", i, 0) : i \in 1..MaxIndirectResults}

Before == Val("before", 0, 0)

NotInvoked ==
  [pc |-> 0, outcome |-> "none", calls |-> 0, received |-> NoCall,
   mem |-> [a \in Addrs |-> Before],
   result |-> <<>>, ret |-> <<>>, exit |-> "none", trapped |-> FALSE]

Write(mem, a, v) == IF a \in Addrs THEN [mem EXCEPT ![a] = v] ELSE mem

\* What the implementation does with the call it receives: it fills the
\* indirect results it was passed and the destination, or it fails, stores
\* the error in the error slot of the call and leaves the results alone.
TargetRuns(c, mem, outcome) ==
  IF outcome = "throw"
    THEN Write(mem, c.errorSlot, Val("error", 0, 0))
    ELSE [a \in Addrs |->
            IF \E n \in 1..Len(c.args) : c.args[n] = a /\ a.k = "indres"
              THEN Val("value", a.i, 0)
            ELSE IF c.how = "memory" /\ c.dest = a THEN Val("result", 0, 1)
            ELSE mem[a]]

TargetTraps(c, outcome) ==
  \/ outcome = "throw" /\ c.errorSlot \notin Addrs
  \/ outcome = "ok" /\ c.how = "memory" /\ c.dest \notin Addrs

\* One instruction of the thunk's body.
ExecInst(t, r, outcome) ==
  LET inst == t.insts[r.pc]
      next == [r EXCEPT !.pc = @ + 1]
  IN CASE inst \in {"call", "coroutineCall"} ->
            [next EXCEPT !.outcome = outcome,
                         !.calls = @ + 1,
                         !.received = t.call,
                         !.mem = TargetRuns(t.call, r.mem, outcome),
                         !.trapped = TargetTraps(t.call, outcome),
                         !.result = IF outcome = "ok" THEN t.result
                                    ELSE [n \in 1..Len(t.result) |-> Val("undef", 0, 0)]]
       [] inst = "store" ->
            [next EXCEPT !.mem = Write(r.mem, t.indirectReturnSlot,
                                       IF r.result = <<>> THEN Val("undef", 0, 0)
                                       ELSE r.result[1])]
       [] inst \in {"ret", "scalarReturn"} ->
            [next EXCEPT !.ret = r.result, !.exit = inst]
       [] inst = "retVoid" -> [next EXCEPT !.exit = inst]
       [] inst = "asyncReturn" -> [next EXCEPT !.ret = r.result]
       [] inst = "asyncExit" -> [next EXCEPT !.exit = inst]
       [] OTHER -> next

IsCall(inst) == inst \in {"call", "coroutineCall"}

\* ---------------------------------------------- the thunk, step by step
ThunkIdle ==
  /\ declRef = [none |-> TRUE]
  /\ NDEBUG = FALSE
  /\ stage = "none"
  /\ thunk = [none |-> TRUE]
  /\ rt = [pc |-> 0]

ThunkInit ==
  /\ declRef \in DeclRefs
  /\ NDEBUG = FALSE
  /\ stage = "Constructed"
  /\ thunk = IRGenThunk(declRef)
  /\ rt = NotInvoked

\* One more state of emit() passed.
Pass(t, state) == [t EXCEPT !.states = Append(@, state)]

\* prepareArguments(), line 130: assert(!isCoroutine) on the asynchronous
\* path, in a compiler built with assertions.
AssertionFails(d, ndebug) == ~ndebug /\ d.isAsync /\ d.isCoroutine

\* What emit() may be run on, by any build of the compiler.
EmissionInit ==
  /\ declRef \in DeclRefs \cup InvalidDeclRefs
  /\ NDEBUG \in BOOLEAN
  /\ stage = "Constructed"
  /\ thunk = IRGenThunk(declRef)
  /\ rt = [pc |-> 0]

Entry ==
  /\ stage = "Constructed"
  /\ thunk' = Pass(EmitEntry(declRef, thunk), "Entry")
  /\ stage' = "Entry"
  /\ UNCHANGED <<declRef, NDEBUG, rt>>

ArgumentsPrepared ==
  /\ stage = "Entry"
  /\ ~AssertionFails(declRef, NDEBUG)
  /\ thunk' = Pass(PrepareArguments(declRef, thunk), "ArgumentsPrepared")
  /\ stage' = "ArgumentsPrepared"
  /\ UNCHANGED <<declRef, NDEBUG, rt>>

\* The assertion stops the compiler.
AssertionFailed ==
  /\ stage = "Entry"
  /\ AssertionFails(declRef, NDEBUG)
  /\ stage' = "AssertionFailed"
  /\ UNCHANGED <<declRef, NDEBUG, thunk, rt>>

TargetResolved ==
  /\ stage = "ArgumentsPrepared"
  /\ thunk' = Pass(LookupMethod(declRef, thunk), "TargetResolved")
  /\ stage' = "TargetResolved"
  /\ UNCHANGED <<declRef, NDEBUG, rt>>

Invoked ==
  /\ stage = "TargetResolved"
  /\ CanEmitCall(declRef, thunk)
  /\ thunk' = Pass(EmitCall(declRef, thunk), "Invoked")
  /\ stage' = "Invoked"
  /\ UNCHANGED <<declRef, NDEBUG, rt>>

Aborted ==
  /\ stage = "TargetResolved"
  /\ ~CanEmitCall(declRef, thunk)
  /\ stage' = "Aborted"
  /\ UNCHANGED <<declRef, NDEBUG, thunk, rt>>

ReturnEmitted ==
  /\ stage = "Invoked"
  /\ thunk' = Pass(EmitReturn(declRef, thunk), "ReturnEmitted")
  /\ stage' = "ReturnEmitted"
  /\ UNCHANGED <<declRef, NDEBUG, rt>>

\* The caller enters the thunk.
InvokeThunk ==
  /\ stage = "ReturnEmitted"
  /\ rt.pc = 0
  /\ rt' = [rt EXCEPT !.pc = 1]
  /\ UNCHANGED <<declRef, NDEBUG, stage, thunk>>

\* The thunk's call of the implementation, which returns or fails.
RunCall ==
  /\ rt.pc \in 1..Len(thunk.insts)
  /\ ~rt.trapped
  /\ IsCall(thunk.insts[rt.pc])
  /\ \E outcome \in {"ok"} \cup (IF declRef.hasErrorResult THEN {"throw"} ELSE {}) :
       rt' = ExecInst(thunk, rt, outcome)
  /\ UNCHANGED <<declRef, NDEBUG, stage, thunk>>

\* Any other instruction of the thunk.
RunInst ==
  /\ rt.pc \in 1..Len(thunk.insts)
  /\ ~rt.trapped
  /\ ~IsCall(thunk.insts[rt.pc])
  /\ rt' = ExecInst(thunk, rt, rt.outcome)
  /\ UNCHANGED <<declRef, NDEBUG, stage, thunk>>

Returned == rt.pc > 0 /\ rt.pc = Len(thunk.insts) + 1

\* -------------------------------------------------- the thunk registry
Refs == 1..NumRefs

\* The lowered function type of each method reference of the module.
RefSignature(ref) ==
  [isAsync |-> ref % 3 = 2, isCoroutine |-> ref % 3 = 0,
   isWitnessMethod |-> ref % 2 = 0, hasErrorResult |-> ref % 2 = 1,
   directResult |-> IF ref % 3 = 1 THEN "direct" ELSE "void",
   numIndirectResults |-> 0,
   params |-> IF ref % 2 = 1 THEN <<"split">> ELSE <<>>,
   numBindings |-> 0, selfIsMetatype |-> FALSE]

\* A new function named after nothing: every thunk gets the same symbol.
CreateFunction_Anonymous(ref, forDefinition) ==
  [entity |-> 0,
   linkage |-> IF forDefinition THEN "definition" ELSE "declaration",
   bodies |-> <<>>]

\* createFunction(IGM, link, signature): a new function without a body,
\* named after its link entity.
CreateFunction(ref, forDefinition) ==
  [entity |-> ref,
   linkage |-> IF forDefinition THEN "definition" ELSE "declaration",
   bodies |-> <<>>]

IsDeclaration(F, f) == F[f].bodies = <<>>

\* updateLinkageForDefinition
UpdateLinkageForDefinition(F, f) == [F EXCEPT ![f].linkage = "definition"]

\* The lookup with `entry` a copy of the map's slot, not a reference to it:
\* the new function is returned but never registered.
GetAddrOfDispatchThunk_ByValue(G, F, ref, forDefinition) ==
  IF G[ref] # 0
    THEN [GlobalFuncs |-> G,
          funcs |-> IF forDefinition THEN UpdateLinkageForDefinition(F, G[ref])
                    ELSE F,
          entry |-> G[ref]]
    ELSE [GlobalFuncs |-> G,
          funcs |-> Append(F, CreateFunction(ref, forDefinition)),
          entry |-> Len(F) + 1]

\* IRGenModule::getAddrOfDispatchThunk: the map and the functions after the
\* request, and the entry point it returns.
GetAddrOfDispatchThunk(G, F, ref, forDefinition) ==
  IF G[ref] # 0
    THEN [GlobalFuncs |-> G,
          funcs |-> IF forDefinition THEN UpdateLinkageForDefinition(F, G[ref])
                    ELSE F,
          entry |-> G[ref]]
    ELSE [GlobalFuncs |-> [G EXCEPT ![ref] = Len(F) + 1],
          funcs |-> Append(F, CreateFunction(ref, forDefinition)),
          entry |-> Len(F) + 1]

\* IRGenFunction IGF(*this, f); IRGenThunk(IGF, declRef).emit();
EmitInto(F, f, ref) ==
  [F EXCEPT ![f].bodies = Append(@, Emit(RefSignature(ref)).insts)]

\* emitDispatchThunk without its isDeclaration() test.
EmitDispatchThunk_Unchecked(G, F, ref) ==
  LET r == GetAddrOfDispatchThunk(G, F, ref, TRUE)
  IN [r EXCEPT !.funcs = EmitInto(r.funcs, r.entry, ref)]

\* IRGenModule::emitDispatchThunk
EmitDispatchThunk(G, F, ref) ==
  LET r == GetAddrOfDispatchThunk(G, F, ref, TRUE)
  IN IF ~IsDeclaration(r.funcs, r.entry) THEN r
     ELSE [r EXCEPT !.funcs = EmitInto(r.funcs, r.entry, ref)]

RegistryIdle ==
  /\ GlobalFuncs = [ref \in Refs |-> 0]
  /\ funcs = <<>>
  /\ requests = <<>>

RegistryInit == RegistryIdle

\* A declare (NotForDefinition) or define (ForDefinition) request.
Declare(ref, forDefinition) ==
  /\ Len(requests) < MaxRequests
  /\ LET r == GetAddrOfDispatchThunk(GlobalFuncs, funcs, ref, forDefinition)
     IN /\ GlobalFuncs' = r.GlobalFuncs
        /\ funcs' = r.funcs
        /\ requests' = Append(requests,
             [op |-> IF forDefinition THEN "define" ELSE "declare",
              ref |-> ref, entry |-> r.entry])

\* A request to emit the thunk.
Define(ref) ==
  /\ Len(requests) < MaxRequests
  /\ LET r == EmitDispatchThunk(GlobalFuncs, funcs, ref)
     IN /\ GlobalFuncs' = r.GlobalFuncs
        /\ funcs' = r.funcs
        /\ requests' = Append(requests,
             [op |-> "emit", ref |-> ref, entry |-> r.entry])

\* ------------------------------------------------ concurrent definers
Threads == 1..NumThreads

ThreadsIdle ==
  /\ tpc = [t \in Threads |-> "idle"]
  /\ tref = [t \in Threads |-> 0]
  /\ tentry = [t \in Threads |-> 0]

\* emitDispatchThunk(declRef) is entered.
TBegin(t, ref) ==
  /\ tpc[t] = "idle"
  /\ tpc' = [tpc EXCEPT ![t] = "lookup"]
  /\ tref' = [tref EXCEPT ![t] = ref]
  /\ UNCHANGED <<tentry, GlobalFuncs, funcs, requests>>

\* line 53-57: the read of GlobalFuncs[entity].
TLookup(t) ==
  /\ tpc[t] = "lookup"
  /\ IF GlobalFuncs[tref[t]] # 0
       THEN /\ tentry' = [tentry EXCEPT ![t] = GlobalFuncs[tref[t]]]
            /\ funcs' = UpdateLinkageForDefinition(funcs, GlobalFuncs[tref[t]])
            /\ tpc' = [tpc EXCEPT ![t] = "check"]
       ELSE /\ tpc' = [tpc EXCEPT ![t] = "create"]
            /\ UNCHANGED <<tentry, funcs>>
  /\ UNCHANGED <<tref, GlobalFuncs, requests>>

\* line 59-65: createFunction and the store through `entry`.
TCreate(t) ==
  /\ tpc[t] = "create"
  /\ funcs' = Append(funcs, CreateFunction(tref[t], TRUE))
  /\ GlobalFuncs' = [GlobalFuncs EXCEPT ![tref[t]] = Len(funcs) + 1]
  /\ tentry' = [tentry EXCEPT ![t] = Len(funcs) + 1]
  /\ tpc' = [tpc EXCEPT ![t] = "check"]
  /\ UNCHANGED <<tref, requests>>

\* line 356-358: if (!f->isDeclaration()) return;
TCheck(t) ==
  /\ tpc[t] = "check"
  /\ tpc' = [tpc EXCEPT ![t] =
       IF IsDeclaration(funcs, tentry[t]) THEN "emit" ELSE "done"]
  /\ UNCHANGED <<tref, tentry, GlobalFuncs, funcs, requests>>

\* line 360-361: the body.
TEmit(t) ==
  /\ tpc[t] = "emit"
  /\ funcs' = EmitInto(funcs, tentry[t], tref[t])
  /\ tpc' = [tpc EXCEPT ![t] = "done"]
  /\ requests' = Append(requests,
       [op |-> "emit", ref |-> tref[t], entry |-> tentry[t]])
  /\ UNCHANGED <<tref, tentry, GlobalFuncs>>

\* ------------------------------------------ the method lookup function
Methods == 1..NumMethods

\* A class: for each vtable entry, whether the method is overridden inside
\* the module (it then needs a reified entry) and whether it is public.
ClassDecls == [Methods -> [overridden : BOOLEAN, public : BOOLEAN]]

\* The address of a method's descriptor; 0 is the descriptor of a method
\* that is none of this class's.
MethodDescriptor(m) == m
Descriptors == {0} \cup {MethodDescriptor(m) : m \in Methods}

\* The metadata a caller may pass: the class's own or a subclass's, which
\* overrides every method that is overridden at all.
Metadatas == {"class", "subclass"}

NoImpl == [cls |-> "none", method |-> 0, discriminator |-> 0]

\* The static implementation left unsigned.
StaticImplementation_Unsigned(m, ptrauth) ==
  [cls |-> "class", method |-> m, discriminator |-> 0]

\* IGM.getAddrOfSILFunction(entry->getImplementation()), signed with the
\* method's discriminator when pointer authentication is configured
\* (lines 489-501).
StaticImplementation(m, ptrauth) ==
  [cls |-> "class", method |-> m,
   discriminator |-> IF ptrauth THEN m ELSE 0]

\* noteNonoverriddenMethod without its visibility test.
NoteNonoverriddenMethod_AnyVisibility(class, m, ptrauth, checks) ==
  Append(checks, [desc |-> MethodDescriptor(m),
                  impl |-> StaticImplementation(m, ptrauth)])

\* LookUpNonoverriddenMethods::noteNonoverriddenMethod: the compare-and-
\* return blocks emitted so far, with this method's added.
NoteNonoverriddenMethod(class, m, ptrauth, checks) ==
  IF ~class[m].public THEN checks
  ELSE Append(checks, [desc |-> MethodDescriptor(m),
                       impl |-> StaticImplementation(m, ptrauth)])

\* ClassMetadataScanner::layout(): the vtable entries in order; a method
\* that needs no reified entry is noted as non-overridden.
RECURSIVE Layout(_, _, _, _)
Layout(class, m, ptrauth, checks) ==
  IF m > NumMethods THEN checks
  ELSE Layout(class, m + 1, ptrauth,
         IF class[m].overridden THEN checks
         ELSE NoteNonoverriddenMethod(class, m, ptrauth, checks))

\* swift_lookUpClassMethod(metadata, method, description): the entry of the
\* metadata's own vtable for the method the descriptor names.
LookUpClassMethod(class, metadata, method, ptrauth) ==
  IF method \notin {MethodDescriptor(m) : m \in Methods} THEN NoImpl
  ELSE LET m == CHOOSE n \in Methods : MethodDescriptor(n) = method
       IN [cls |-> IF metadata = "subclass" /\ class[m].overridden
                     THEN "subclass" ELSE "class",
           method |-> m,
           discriminator |-> IF ptrauth THEN m ELSE 0]

LookupInit ==
  /\ classDecl \in ClassDecls
  /\ PointerAuth \in BOOLEAN
  /\ lk = [defined |-> FALSE, checks |-> <<>>,
           pc |-> 0, metadata |-> "none", method |-> 0,
           compared |-> <<>>, slow |-> 0, returns |-> <<>>]

LookupIdle ==
  /\ classDecl = <<>>
  /\ PointerAuth = FALSE
  /\ lk = [none |-> TRUE]

\* IRGenModule::emitMethodLookupFunction
EmitMethodLookupFunction ==
  /\ lk.pc = 0
  /\ IF lk.defined
       THEN UNCHANGED lk
       ELSE lk' = [lk EXCEPT !.defined = TRUE,
                             !.checks = Layout(classDecl, 1, PointerAuth, <<>>)]
  /\ UNCHANGED <<classDecl, PointerAuth>>

\* A caller enters the lookup function with (metadata, method).
CallLookup(metadata, method) ==
  /\ lk.defined
  /\ lk.pc = 0
  /\ lk' = [lk EXCEPT !.pc = 1, !.metadata = metadata, !.method = method]
  /\ UNCHANGED <<classDecl, PointerAuth>>

\* A compare-and-branch block whose matching branch lacks its return.
Compare_FallThrough ==
  /\ lk.pc \in 1..Len(lk.checks)
  /\ lk.returns = <<>>
  /\ lk' = [lk EXCEPT !.compared = Append(@, lk.checks[lk.pc].desc),
                      !.pc = @ + 1]
  /\ UNCHANGED <<classDecl, PointerAuth>>

\* One compare-and-branch block: return the static implementation on a
\* match, fall through otherwise.
Compare ==
  /\ lk.pc \in 1..Len(lk.checks)
  /\ lk.returns = <<>>
  /\ IF lk.method = lk.checks[lk.pc].desc
       THEN lk' = [lk EXCEPT !.compared = Append(@, lk.checks[lk.pc].desc),
                             !.returns = Append(@, lk.checks[lk.pc].impl)]
       ELSE lk' = [lk EXCEPT !.compared = Append(@, lk.checks[lk.pc].desc),
                             !.pc = @ + 1]
  /\ UNCHANGED <<classDecl, PointerAuth>>

\* lines 515-517: the call of the runtime and the return of its result.
SlowPath ==
  /\ lk.pc > 0
  /\ lk.pc = Len(lk.checks) + 1
  /\ lk.returns = <<>>
  /\ lk' = [lk EXCEPT !.slow = @ + 1,
                      !.returns = Append(@, LookUpClassMethod(classDecl,
                                     lk.metadata, lk.method, PointerAuth))]
  /\ UNCHANGED <<classDecl, PointerAuth>>

\* ------------------------------------------------------------- Vector
\* Vector<count, Element> (stdlib Vector): the storage handed to
\* Builtin.emplace, the three closure-driven initializers and swapAt.
MaxCount == 3         \* the largest static count
MaxSwaps == 2         \* swapAt calls on one vector

Uninitialized == 0
FirstElement == 1     \* the element given to init(unfold:with:)

Initializers == {"init", "expand", "unfold"}

\* The memory the vector's buffer can reach: its count slots and the ones
\* just past them.
Slots == 0..MaxCount

\* The vector before its initializer runs. The closure throws at its call
\* number throwAt (never when throwAt = 0).
VectorStart(op, count, throwAt) ==
  [op |-> op, count |-> count, throwAt |-> throwAt, pc |-> "start",
   i |-> 0, j |-> 0,
   slots |-> [k \in Slots |-> Uninitialized],
   inits |-> [k \in Slots |-> 0],
   deinits |-> [k \in Slots |-> 0],
   misuse |-> FALSE,       \* memory touched out of bounds or in the wrong state
   state |-> 1,            \* init(expand:with:)'s mutable state
   calls |-> <<>>,         \* what the closure was passed, call by call
   caught |-> "none", error |-> "none",
   swaps |-> 0, moves |-> 0,
   swap |-> [i |-> 0, j |-> 0, moves |-> 0,   \* the last swapAt call
             inits |-> [k \in Slots |-> 0],
             slots |-> [k \in Slots |-> Uninitialized]],
   original |-> <<>>]

\* UnsafeMutableBufferPointer.initializeElement(at:to:)
InitializeElement(v, k, x) ==
  [v EXCEPT !.slots[k] = x,
            !.inits[k] = @ + 1,
            !.misuse = @ \/ k >= v.count \/ v.slots[k] # Uninitialized]

\* UnsafeMutableBufferPointer.deinitializeElement(at:)
DeinitializeElement(v, k) ==
  [v EXCEPT !.slots[k] = Uninitialized,
            !.deinits[k] = @ + 1,
            !.misuse = @ \/ k >= v.count \/ v.slots[k] = Uninitialized]

\* UnsafeMutableBufferPointer.moveElement(from:): the slot is left
\* uninitialized; the value moved out is v.slots[k] before the move.
MoveElement(v, k) ==
  [v EXCEPT !.slots[k] = Uninitialized,
            !.moves = @ + 1,
            !.misuse = @ \/ k >= v.count \/ v.slots[k] = Uninitialized]

\* What the closure is passed at its next call, and what it returns.
ClosureArgument(v) ==
  CASE v.op = "init" -> v.i
    [] v.op = "expand" -> v.state
    [] OTHER -> v.slots[0]

ClosureResult(v) == Len(v.calls) + (IF v.op = "unfold" THEN 2 ELSE 1)

ClosureThrows(v) == v.throwAt = Len(v.calls) + 1

VectorIdle == vec = [none |-> TRUE]

VectorInit ==
  \E op \in Initializers, count \in 0..MaxCount, throwAt \in 0..MaxCount :
    vec = VectorStart(op, count, throwAt)

\* init(_:) and init(expand:with:): the closure given to Builtin.emplace
\* starts its loop, for i in 0 ..< count.
EmplaceBegin ==
  /\ vec.pc = "start"
  /\ vec.op \in {"init", "expand"}
  /\ vec' = [vec EXCEPT !.pc = "loop", !.i = 0]

\* init(unfold:with:): element 0 is initialized with `first`, then the loop
\* is for i in 1 ..< count, a range that cannot be formed when count is 0.
\* On a buffer of count 0 the write of element 0 is out of bounds: a build
\* that checks the index stops before the write, any other build writes
\* past the storage.
UnfoldFirst ==
  /\ vec.pc = "start"
  /\ vec.op = "unfold"
  /\ \/ vec' = [InitializeElement(vec, 0, FirstElement) EXCEPT
                  !.pc = IF 1 <= vec.count THEN "loop" ELSE "trapped",
                  !.i = 1]
     \/ /\ vec.count = 0
        /\ vec' = [vec EXCEPT !.pc = "trapped"]

\* One iteration whose closure call returns an element.
InitializeNext ==
  /\ vec.pc = "loop"
  /\ vec.i < vec.count
  /\ ~ClosureThrows(vec)
  /\ vec' = [InitializeElement(vec, vec.i, ClosureResult(vec)) EXCEPT
               !.calls = Append(@, ClosureArgument(vec)),
               !.state = IF vec.op = "expand" THEN @ + 1 ELSE @,
               !.i = @ + 1]

\* One iteration whose closure call throws: the catch block is entered,
\* for j in 0 ..< i.
ClosureThrew ==
  /\ vec.pc = "loop"
  /\ vec.i < vec.count
  /\ ClosureThrows(vec)
  /\ vec' = [vec EXCEPT !.calls = Append(@, ClosureArgument(vec)),
                        !.caught = "E",
                        !.pc = "cleanup", !.j = 0]

\* The catch block with its loop run over 0 ... i, the failed index included.
Deinitialize_Inclusive ==
  /\ vec.pc = "cleanup"
  /\ vec.j <= vec.i
  /\ vec' = [DeinitializeElement(vec, vec.j) EXCEPT !.j = @ + 1]

\* buffer.deinitializeElement(at: j)
Deinitialize ==
  /\ vec.pc = "cleanup"
  /\ vec.j < vec.i
  /\ vec' = [DeinitializeElement(vec, vec.j) EXCEPT !.j = @ + 1]

\* throw error
Rethrow ==
  /\ vec.pc = "cleanup"
  /\ vec.j >= vec.i
  /\ vec' = [vec EXCEPT !.pc = "thrown", !.error = vec.caught]

\* The loop is over: Builtin.emplace returns the vector.
EmplaceEnd ==
  /\ vec.pc = "loop"
  /\ vec.i >= vec.count
  /\ vec' = [vec EXCEPT !.pc = "done",
                        !.original = [k \in 1..vec.count |-> vec.slots[k - 1]]]

\* swapAt with its guard on i != j left out.
SwapAt_Unguarded(v, i, j) ==
  LET ithElement == v.slots[i]
      v1 == MoveElement(v, i)
      jthElement == v1.slots[j]
      v2 == MoveElement(v1, j)
      v3 == InitializeElement(v2, i, jthElement)
  IN InitializeElement(v3, j, ithElement)

\* Vector.swapAt(_:_:)
SwapAt(v, i, j) ==
  IF i = j THEN v
  ELSE LET ithElement == v.slots[i]
           v1 == MoveElement(v, i)
           jthElement == v1.slots[j]
           v2 == MoveElement(v1, j)
           v3 == InitializeElement(v2, i, jthElement)
       IN InitializeElement(v3, j, ithElement)

\* A caller swaps two positions of the initialized vector.
CallSwapAt(i, j) ==
  /\ vec.pc = "done"
  /\ vec.swaps < MaxSwaps
  /\ i < vec.count /\ j < vec.count
  /\ vec' = [SwapAt(vec, i, j) EXCEPT
               !.swaps = @ + 1,
               !.swap = [i |-> i, j |-> j, moves |-> vec.moves,
                         inits |-> vec.inits, slots |-> vec.slots]]

\* ----------------------------------------------------- specifications
Init == RegistryInit /\ ThreadsIdle /\ ThunkIdle /\ LookupIdle /\ VectorIdle

Next ==
  \/ \E ref \in Refs, forDefinition \in BOOLEAN :
       Declare(ref, forDefinition) /\ UNCHANGED <<thrVars, thunkVars, lookupVars, vectorVars>>
  \/ \E ref \in Refs : Define(ref) /\ UNCHANGED <<thrVars, thunkVars, lookupVars, vectorVars>>

Spec == Init /\ [][Next]_vars

InitConcurrent == RegistryInit /\ ThreadsIdle /\ ThunkIdle /\ LookupIdle /\ VectorIdle

NextConcurrent ==
  \/ \E t \in Threads, ref \in Refs : TBegin(t, ref) /\ UNCHANGED <<thunkVars, lookupVars, vectorVars>>
  \/ \E t \in Threads : TLookup(t) /\ UNCHANGED <<thunkVars, lookupVars, vectorVars>>
  \/ \E t \in Threads : TCreate(t) /\ UNCHANGED <<thunkVars, lookupVars, vectorVars>>
  \/ \E t \in Threads : TCheck(t) /\ UNCHANGED <<thunkVars, lookupVars, vectorVars>>
  \/ \E t \in Threads : TEmit(t) /\ UNCHANGED <<thunkVars, lookupVars, vectorVars>>

SpecConcurrent == InitConcurrent /\ [][NextConcurrent]_vars

InitThunk == RegistryIdle /\ ThreadsIdle /\ ThunkInit /\ LookupIdle /\ VectorIdle

NextThunk ==
  \/ Entry /\ UNCHANGED <<regVars, thrVars, lookupVars, vectorVars>>
  \/ ArgumentsPrepared /\ UNCHANGED <<regVars, thrVars, lookupVars, vectorVars>>
  \/ TargetResolved /\ UNCHANGED <<regVars, thrVars, lookupVars, vectorVars>>
  \/ Invoked /\ UNCHANGED <<regVars, thrVars, lookupVars, vectorVars>>
  \/ Aborted /\ UNCHANGED <<regVars, thrVars, lookupVars, vectorVars>>
  \/ ReturnEmitted /\ UNCHANGED <<regVars, thrVars, lookupVars, vectorVars>>
  \/ InvokeThunk /\ UNCHANGED <<regVars, thrVars, lookupVars, vectorVars>>
  \/ RunCall /\ UNCHANGED <<regVars, thrVars, lookupVars, vectorVars>>
  \/ RunInst /\ UNCHANGED <<regVars, thrVars, lookupVars, vectorVars>>

SpecThunk == InitThunk /\ [][NextThunk]_vars

InitEmission == RegistryIdle /\ ThreadsIdle /\ EmissionInit /\ LookupIdle /\ VectorIdle

NextEmission ==
  \/ Entry /\ UNCHANGED <<regVars, thrVars, lookupVars, vectorVars>>
  \/ ArgumentsPrepared /\ UNCHANGED <<regVars, thrVars, lookupVars, vectorVars>>
  \/ AssertionFailed /\ UNCHANGED <<regVars, thrVars, lookupVars, vectorVars>>
  \/ TargetResolved /\ UNCHANGED <<regVars, thrVars, lookupVars, vectorVars>>
  \/ Invoked /\ UNCHANGED <<regVars, thrVars, lookupVars, vectorVars>>
  \/ Aborted /\ UNCHANGED <<regVars, thrVars, lookupVars, vectorVars>>
  \/ ReturnEmitted /\ UNCHANGED <<regVars, thrVars, lookupVars, vectorVars>>

SpecEmission == InitEmission /\ [][NextEmission]_vars

InitLookup == RegistryIdle /\ ThreadsIdle /\ ThunkIdle /\ LookupInit /\ VectorIdle

NextLookup ==
  \/ EmitMethodLookupFunction /\ UNCHANGED <<regVars, thrVars, thunkVars, vectorVars>>
  \/ \E metadata \in Metadatas, method \in Descriptors :
       CallLookup(metadata, method) /\ UNCHANGED <<regVars, thrVars, thunkVars, vectorVars>>
  \/ Compare /\ UNCHANGED <<regVars, thrVars, thunkVars, vectorVars>>
  \/ SlowPath /\ UNCHANGED <<regVars, thrVars, thunkVars, vectorVars>>

SpecLookup == InitLookup /\ [][NextLookup]_vars

InitVector == RegistryIdle /\ ThreadsIdle /\ ThunkIdle /\ LookupIdle /\ VectorInit

NextVector ==
  \/ EmplaceBegin /\ UNCHANGED <<regVars, thrVars, thunkVars, lookupVars>>
  \/ UnfoldFirst /\ UNCHANGED <<regVars, thrVars, thunkVars, lookupVars>>
  \/ InitializeNext /\ UNCHANGED <<regVars, thrVars, thunkVars, lookupVars>>
  \/ ClosureThrew /\ UNCHANGED <<regVars, thrVars, thunkVars, lookupVars>>
  \/ Deinitialize /\ UNCHANGED <<regVars, thrVars, thunkVars, lookupVars>>
  \/ Rethrow /\ UNCHANGED <<regVars, thrVars, thunkVars, lookupVars>>
  \/ EmplaceEnd /\ UNCHANGED <<regVars, thrVars, thunkVars, lookupVars>>
  \/ \E i, j \in 0..(MaxCount - 1) :
       CallSwapAt(i, j) /\ UNCHANGED <<regVars, thrVars, thunkVars, lookupVars>>

SpecVector == InitVector /\ [][NextVector]_vars

\* ================================================================ claims
\* ---- registry
EntriesOf(ref) == {f \in 1..Len(funcs) : funcs[f].entity = ref}

RECURSIVE BodiesUpTo(_, _)
BodiesUpTo(ref, n) ==
  IF n = 0 THEN 0
  ELSE (IF funcs[n].entity = ref THEN Len(funcs[n].bodies) ELSE 0)
       + BodiesUpTo(ref, n - 1)

\* The bodies emitted for a reference, over all the module's functions.
BodiesOf(ref) == BodiesUpTo(ref, Len(funcs))

Requested(ref, ops) ==
  \E n \in 1..Len(requests) : requests[n].ref = ref /\ requests[n].op \in ops

\* C1: every request for a reference returns the same entry point: the
\* first request allocates it (one function per requested reference, named
\* after it and registered in the map), every later request returns that
\* one, and a body is only ever put on the entry point that the requests for
\* its reference returned.
C1_SameEntryPoint ==
  /\ \A m, n \in 1..Len(requests) :
       requests[m].ref = requests[n].ref => requests[m].entry = requests[n].entry
  /\ \A n \in 1..Len(requests) :
       /\ requests[n].entry \in 1..Len(funcs)
       /\ funcs[requests[n].entry].entity = requests[n].ref
       /\ GlobalFuncs[requests[n].ref] = requests[n].entry
  /\ Len(funcs) = Cardinality({requests[n].ref : n \in 1..Len(requests)})
  /\ \A f \in 1..Len(funcs) :
       funcs[f].bodies # <<>> => GlobalFuncs[funcs[f].entity] = f

\* A declare, then a request for another reference, then the definition of
\* the first, whose body sits on the entry point the declare returned.
C1_Witness ==
  \E m, n, k \in 1..Len(requests) :
    /\ m < n /\ n < k
    /\ requests[m].op = "declare"
    /\ requests[n].ref # requests[m].ref
    /\ requests[k].op = "emit" /\ requests[k].ref = requests[m].ref
    /\ funcs[requests[m].entry].bodies # <<>>

\* C2: the number of bodies generated for a reference is 1 if its thunk was
\* ever emitted (emitDispatchThunk) and 0 otherwise; the one body is the
\* output of the generation pipeline for that reference, however many
\* requests followed.
C2_OneBody ==
  \A ref \in Refs :
    IF Requested(ref, {"emit"})
      THEN /\ BodiesOf(ref) = 1
           /\ \A f \in EntriesOf(ref) :
                funcs[f].bodies = <<Emit(RefSignature(ref)).insts>>
      ELSE BodiesOf(ref) = 0

\* The thunk of a reference was emitted twice, after a declare and a bare
\* define request for it.
C2_Witness ==
  \E ref \in Refs :
    /\ Requested(ref, {"declare"})
    /\ Requested(ref, {"define"})
    /\ \E m, n \in 1..Len(requests) :
         /\ m < n
         /\ requests[m].op = "emit" /\ requests[m].ref = ref
         /\ requests[n].op = "emit" /\ requests[n].ref = ref
    /\ BodiesOf(ref) = 1

\* C3: with concurrent definers the generation pipeline runs at most once
\* for a reference, which never ends up with two bodies or two entry points.
C3_ConcurrentOneBody ==
  \A ref \in Refs :
    /\ BodiesOf(ref) <= 1
    /\ Cardinality(EntriesOf(ref)) <= 1

\* ---- the thunk
\* What a caller that called the implementation directly would get back.
DirectResult(d) ==
  IF d.isCoroutine THEN <<Val("result", 0, 1)>>
  ELSE IF d.directResult = "direct" THEN <<Val("result", 0, 1)>> ELSE <<>>

CallDone == rt.pc > 0 /\ rt.calls > 0

ReturnSequence(d) ==
  IF d.isCoroutine THEN <<"ret">>
  ELSE IF d.isAsync THEN <<"asyncReturn", "asyncExit">>
  ELSE IF d.directResult = "direct" THEN <<"scalarReturn">> ELSE <<"retVoid">>

\* C5 as claimed: the target's error is in the caller's error slot, and on
\* that execution the thunk takes none of its return paths.
C5_NoReturnOnError ==
  (CallDone /\ rt.outcome = "throw") =>
    /\ rt.mem[Val("errslot", 0, 0)] = Val("error", 0, 0)
    /\ rt.exit = "none"

\* C5, amended: when the target fails, the call was given the caller's own
\* error slot, which then holds the target's error as produced; the thunk
\* has no instruction that reads or writes it, and it ends with the return
\* sequence of its convention, as it does when the target succeeds.
C5_ErrorConduit ==
  (CallDone /\ rt.outcome = "throw") =>
    /\ rt.received.errorSlot = Val("errslot", 0, 0)
    /\ rt.mem[Val("errslot", 0, 0)] = Val("error", 0, 0)
    /\ ~rt.trapped
    /\ \A n \in 1..Len(thunk.insts) : thunk.insts[n] # "store"
    /\ Returned =>
         /\ rt.exit = ReturnSequence(declRef)[Len(ReturnSequence(declRef))]
         /\ SubSeq(thunk.insts, Len(thunk.insts) - Len(ReturnSequence(declRef)) + 1,
                   Len(thunk.insts)) = ReturnSequence(declRef)

\* An ordinary thunk has returned after its target failed.
C5_Witness ==
  /\ Returned
  /\ rt.outcome = "throw"
  /\ ~declRef.isAsync /\ ~declRef.isCoroutine
  /\ rt.exit \in {"retVoid", "scalarReturn"}

\* C6: for a method with an indirect return and an error result, when the
\* target fails every destination the caller supplied still holds what it
\* held before the call, and the error slot holds the error.
C6_DestinationUntouched ==
  (/\ CallDone
   /\ rt.outcome = "throw"
   /\ (declRef.directResult = "indirect" \/ declRef.numIndirectResults > 0)) =>
    /\ \A a \in Addrs \ {Val("errslot", 0, 0)} : rt.mem[a] = Before
    /\ rt.mem[Val("errslot", 0, 0)] = Val("error", 0, 0)

\* A thunk with an indirectly returned result and a formal indirect result
\* has returned after its target failed.
C6_Witness ==
  /\ Returned
  /\ rt.outcome = "throw"
  /\ declRef.directResult = "indirect"
  /\ declRef.numIndirectResults > 0
  /\ rt.received.dest = Val("sret", 0, 0)

\* The parts of a call, by the place the claim gives them.
ClaimedRank(part) ==
  CASE part = "receiver" -> 1
    [] part \in {"metadata", "wtable"} -> 2
    [] part = "error" -> 3
    [] part = "indirect" -> 4
    [] part = "arg" -> 5
    [] part = "bindings" -> 6
    [] OTHER -> 0

\* The place of each part under the ordinary and coroutine conventions.
OrdinaryRank(part) ==
  CASE part \in {"metadata", "wtable"} -> 1
    [] part = "error" -> 2
    [] part = "buffer" -> 3
    [] part = "receiver" -> 4
    [] part = "indirect" -> 5
    [] part = "arg" -> 6
    [] part = "bindings" -> 7
    [] OTHER -> 0

ArgumentsDone == stage \in {"ArgumentsPrepared", "TargetResolved", "Invoked",
                            "Aborted", "ReturnEmitted"}

\* C10 as claimed: under every convention the parts are handled in the
\* order receiver, witness metadata, error slot, indirect returns, declared
\* arguments, generic bindings.
C10_OneOrder ==
  ArgumentsDone =>
    \A m, n \in 1..Len(thunk.order) :
      (m < n /\ thunk.order[m] # "buffer" /\ thunk.order[n] # "buffer")
        => ClaimedRank(thunk.order[m]) <= ClaimedRank(thunk.order[n])

\* C10, amended: the order is fixed per convention. An asynchronous thunk
\* handles receiver, witness metadata, error slot, indirect returns, declared
\* arguments, generic bindings; an ordinary or coroutine thunk handles
\* witness metadata, error slot, resume buffer, receiver, indirect returns,
\* declared arguments, generic bindings. Every part the method has is
\* handled.
C10_OrderByConvention ==
  ArgumentsDone =>
    /\ \A m, n \in 1..Len(thunk.order) :
         m < n =>
           IF declRef.isAsync
             THEN ClaimedRank(thunk.order[m]) <= ClaimedRank(thunk.order[n])
             ELSE OrdinaryRank(thunk.order[m]) <= OrdinaryRank(thunk.order[n])
    /\ \A n \in 1..Len(thunk.order) :
         ClaimedRank(thunk.order[n]) > 0 \/ thunk.order[n] = "buffer"
    /\ {thunk.order[n] : n \in 1..Len(thunk.order)} =
         {"receiver"}
           \cup (IF declRef.isWitnessMethod THEN {"metadata", "wtable"} ELSE {})
           \cup (IF declRef.hasErrorResult THEN {"error"} ELSE {})
           \cup (IF declRef.isCoroutine THEN {"buffer"} ELSE {})
           \cup (IF declRef.numIndirectResults > 0
                    \/ (~declRef.isAsync /\ declRef.directResult = "indirect")
                   THEN {"indirect"} ELSE {})
           \cup (IF declRef.params # <<>> THEN {"arg"} ELSE {})
           \cup (IF declRef.numBindings > 0 THEN {"bindings"} ELSE {})

\* An ordinary witness-method thunk with every part has prepared its
\* arguments: the witness metadata came first, the receiver fourth.
C10_Witness ==
  /\ stage = "ArgumentsPrepared"
  /\ ~declRef.isAsync
  /\ Len(thunk.order) >= 7
  /\ thunk.order[1] = "wtable"
  /\ thunk.order[4] = "receiver"
  /\ thunk.order[Len(thunk.order)] = "bindings"

\* ---- the method lookup function
LookupReturned == lk.defined /\ lk.pc > 0 /\ lk.returns # <<>>

NamesStaticMethod(method) ==
  /\ method \in {MethodDescriptor(m) : m \in Methods}
  /\ \E m \in Methods :
       /\ MethodDescriptor(m) = method
       /\ ~classDecl[m].overridden
       /\ classDecl[m].public

\* C7: for a descriptor that names a non-overridden public method of the
\* class, and for either metadata, the function answers on its fast path,
\* with the implementation (and signature, when pointer authentication is
\* configured) that the runtime lookup returns for the same inputs.
C7_FastEqualsSlow ==
  (LookupReturned /\ NamesStaticMethod(lk.method)) =>
    /\ lk.slow = 0
    /\ lk.returns[1] =
         LookUpClassMethod(classDecl, lk.metadata, lk.method, PointerAuth)

\* The last method of the table, found on the fast path after two other
\* candidates, for a subclass's metadata and with signing configured.
C7_Witness ==
  /\ LookupReturned
  /\ lk.slow = 0
  /\ lk.method = MethodDescriptor(NumMethods)
  /\ Len(lk.compared) = NumMethods
  /\ lk.metadata = "subclass"
  /\ PointerAuth

\* C8: the function holds no equality check for a method that is
\* overridden or not public, so a descriptor that names such a method never
\* matches on the fast path: its answer is the runtime routine's.
C8_NoCheckForOverriddenOrHidden ==
  lk.defined =>
    /\ \A n \in 1..Len(lk.checks) : NamesStaticMethod(lk.checks[n].desc)
    /\ (LookupReturned /\ ~NamesStaticMethod(lk.method)) =>
         /\ lk.slow = 1
         /\ lk.returns = <<LookUpClassMethod(classDecl, lk.metadata, lk.method,
                                             PointerAuth)>>

\* A public method that a subclass overrides, looked up with the subclass's
\* metadata in a function that does have static candidates.
C8_Witness ==
  /\ LookupReturned
  /\ lk.method \in Methods
  /\ classDecl[lk.method].overridden /\ classDecl[lk.method].public
  /\ lk.metadata = "subclass"
  /\ Len(lk.checks) = NumMethods - 1
  /\ lk.returns[1].cls = "subclass"

\* C9: a call of the function compares the candidates in table order,
\* returns at the first match without looking further, calls the runtime
\* routine exactly when no candidate matched, returns exactly once, and is
\* never left without a next step before it has returned.
C9_OneReturn ==
  lk.defined =>
    /\ Len(lk.returns) <= 1
    /\ lk.slow <= 1
    /\ \A m, n \in 1..Len(lk.checks) : m < n => lk.checks[m].desc < lk.checks[n].desc
    /\ Len(lk.compared) <= Len(lk.checks)
    /\ \A n \in 1..Len(lk.compared) : lk.compared[n] = lk.checks[n].desc
    /\ \A n \in 1..(Len(lk.compared) - 1) : lk.compared[n] # lk.method
    /\ (lk.pc > 0 /\ lk.returns = <<>>) =>
         /\ lk.pc \in 1..(Len(lk.checks) + 1)
         /\ Len(lk.compared) = lk.pc - 1
         /\ lk.slow = 0
    /\ LookupReturned =>
         /\ lk.slow = 1 <=> \A n \in 1..Len(lk.checks) : lk.checks[n].desc # lk.method
         /\ lk.slow = 0 =>
              /\ lk.compared[Len(lk.compared)] = lk.method
              /\ lk.returns[1] = lk.checks[Len(lk.compared)].impl
         /\ lk.slow = 1 => Len(lk.compared) = Len(lk.checks)

\* A call that returned at the second of three candidates.
C9_Witness ==
  /\ LookupReturned
  /\ Len(lk.checks) = NumMethods
  /\ Len(lk.compared) = 2
  /\ lk.slow = 0
  /\ Len(lk.returns) = 1

\* ---- ownership and indirection
\* How many times a value occurs in a stream.
Occurrences(stream, v) == Cardinality({n \in 1..Len(stream) : stream[n] = v})

\* The declared parameters that are objects passed by address.
IndirectParams(d) == {p \in 1..Len(d.params) : RequiresIndirect(d.params[p])}

\* C11: under the ordinary and coroutine conventions the thunk takes
\* (load-as-take) exactly the addresses of the indirectly passed objects,
\* each once; every component of a taken value is in the stream handed to
\* the target exactly once, before the call as at the call; the body has no
\* instruction besides the call that writes memory, so the caller's
\* indirect-return memory only ever holds what the target put there.
C11_TakenExactlyOnce ==
  (ArgumentsDone /\ ~declRef.isAsync) =>
    /\ Len(thunk.taken) = Cardinality(IndirectParams(declRef))
    /\ \A p \in IndirectParams(declRef) :
         /\ Occurrences(thunk.taken, Val("ptr", p, 0)) = 1
         /\ \A c \in 1..2 : Occurrences(thunk.params, Val("comp", p, c)) = 1
    /\ CallDone =>
         /\ \A p \in IndirectParams(declRef), c \in 1..2 :
              Occurrences(rt.received.args, Val("comp", p, c)) = 1
         /\ \A n \in 1..Len(thunk.taken) :
              Occurrences(rt.received.args, thunk.taken[n]) = 0
         /\ rt.mem = TargetRuns(rt.received, NotInvoked.mem, rt.outcome)
    /\ \A n \in 1..Len(thunk.insts) :
         thunk.insts[n] \in {"loadAsTake", "heapMetadataRef", "virtualMethodValue",
                             "witnessMethodValue", "call", "coroutineCall",
                             "ret", "retVoid", "scalarReturn"}

\* A thunk that took two indirectly passed objects and has a formal indirect
\* result has returned.
C11_Witness ==
  /\ Returned
  /\ declRef.params = <<"indirect", "indirect">>
  /\ declRef.numIndirectResults > 0
  /\ Len(thunk.taken) = 2
  /\ rt.mem[Val("indres", 1, 0)] = Val("value", 1, 0)

\* C12: whichever way the native schema of a declared parameter passes it
\* (by address, packed into one word, split over two words, or not at all),
\* the thunk hands the target the components the caller started from: the
\* words re-assembled with mapFromNative, the stored value loaded with
\* load-as-take, and an address parameter as it came.
C12_IndirectionTransparent ==
  (ArgumentsDone /\ ~declRef.isAsync) =>
    LET first == (IF declRef.isCoroutine THEN 1 ELSE 0)
                   + declRef.numIndirectResults + 1
        values == Flatten(SeqOf(Len(declRef.params),
                    LAMBDA p : Components(declRef.params[p], p)))
    IN /\ SubSeq(thunk.params, first, first + Len(values) - 1) = values
       /\ \A p \in 1..Len(declRef.params) :
            IsObject(declRef.params[p]) /\ ~SchemaEmpty(declRef.params[p]) =>
              /\ Components(declRef.params[p], p) =
                   (IF RequiresIndirect(declRef.params[p])
                      THEN LoadAsTake(MapIntoNative(declRef.params[p], p)[1])
                      ELSE MapFromNative(declRef.params[p],
                                         MapIntoNative(declRef.params[p], p)))
       /\ CallDone =>
            SubSeq(rt.received.args, first, first + Len(values) - 1) = values

\* A thunk whose parameters are a split object and an indirectly passed one
\* has called its target.
C12_Witness ==
  /\ CallDone
  /\ ~declRef.isAsync
  /\ declRef.params = <<"split", "indirect">>
  /\ rt.received.args # <<>>

\* ---- emission
BothConventions(d) == d.isAsync /\ d.isCoroutine

FrameWordsRead(t) ==
  Cardinality({n \in 1..Len(t.order) : t.order[n] # "bindings"})
    + Cardinality({n \in 1..Len(t.params) : t.params[n].k = "bind"})

EmitStates ==
  <<"Entry", "ArgumentsPrepared", "TargetResolved", "Invoked", "ReturnEmitted">>

Terminators(t) ==
  {n \in 1..Len(t.insts) :
     t.insts[n] \in {"ret", "retVoid", "scalarReturn", "asyncExit"}}

SymbolOf(f) == funcs[f].entity

\* C16: whatever was requested before, and in whatever order, the entry
\* point returned for a reference carries the symbol of that reference's
\* link entity; no two functions of the module carry the same symbol, and
\* requests for different references never return the same entry point.
C16_DeterministicNaming ==
  /\ \A n \in 1..Len(requests) : SymbolOf(requests[n].entry) = requests[n].ref
  /\ \A f, g \in 1..Len(funcs) : f # g => SymbolOf(f) # SymbolOf(g)
  /\ \A m, n \in 1..Len(requests) :
       requests[m].ref # requests[n].ref => requests[m].entry # requests[n].entry

\* The references were first requested in descending order, one of them by
\* a definition, and each function still carries its own reference's symbol.
C16_Witness ==
  /\ Len(funcs) = NumRefs
  /\ \A f \in 1..Len(funcs) : SymbolOf(f) = NumRefs + 1 - f
  /\ Requested(NumRefs, {"emit"})
  /\ Requested(1, {"declare"})

\* ---- Vector
\* What the n-th call of the closure is passed by init(_:) (the index) and
\* by init(expand:with:) (the state, which every call advances).
ExpectedArgument(op, n) == IF op = "init" THEN n - 1 ELSE n

\* C17: init(_:) and init(expand:with:) call the closure for the indices in
\* ascending order and never after it has thrown. When the call for index i
\* throws, the elements 0..<i are deinitialized once each, nothing else is
\* touched, no element stays initialized and the closure's error is thrown.
\* When no call throws, the closure is called count times and every element
\* of 0..<count is initialized exactly once.
C17_ThrowingInitializer ==
  vec.op \in {"init", "expand"} =>
    /\ ~vec.misuse
    /\ Len(vec.calls) <= vec.count
    /\ \A n \in 1..Len(vec.calls) : vec.calls[n] = ExpectedArgument(vec.op, n)
    /\ vec.caught # "none" => Len(vec.calls) = vec.throwAt
    /\ \A k \in Slots : vec.swaps = 0 => (vec.inits[k] <= 1 /\ vec.deinits[k] <= vec.inits[k])
    /\ vec.pc = "thrown" =>
         /\ vec.error = "E" /\ vec.error = vec.caught
         /\ \A k \in Slots :
              /\ vec.slots[k] = Uninitialized
              /\ vec.inits[k] = (IF k < vec.throwAt - 1 THEN 1 ELSE 0)
              /\ vec.deinits[k] = vec.inits[k]
    /\ (vec.pc = "done" /\ vec.swaps = 0) =>
         /\ vec.error = "none" /\ vec.caught = "none"
         /\ Len(vec.calls) = vec.count
         /\ \A k \in Slots :
              /\ vec.inits[k] = (IF k < vec.count THEN 1 ELSE 0)
              /\ vec.deinits[k] = 0
              /\ vec.slots[k] = (IF k < vec.count THEN k + 1 ELSE Uninitialized)

\* init(expand:with:) has thrown the error of its third closure call, after
\* two elements were initialized.
C17_Witness ==
  /\ vec.op = "expand"
  /\ vec.pc = "thrown"
  /\ Len(vec.calls) = 3
  /\ vec.deinits[0] = 1 /\ vec.deinits[1] = 1

\* C18: init(unfold:with:) that has returned has called the closure count
\* times, each time with a borrow of the first element; when it has thrown,
\* no element, the first included, is left initialized and the closure's
\* error is the one thrown.
C18_UnfoldCallsCountTimes ==
  vec.op = "unfold" =>
    /\ (vec.pc = "done" /\ vec.swaps = 0) =>
         /\ Len(vec.calls) = vec.count
         /\ \A n \in 1..Len(vec.calls) : vec.calls[n] = FirstElement
    /\ vec.pc = "thrown" =>
         /\ vec.error = vec.caught
         /\ \A k \in Slots : vec.slots[k] = Uninitialized

\* C19: a swapAt(i, j) on valid indices leaves position i with what j held
\* and j with what i held, every other position as it was, and moves or
\* initializes nothing when i = j; after any number of swaps every position
\* of 0..<count is initialized and the vector holds each of its original
\* elements exactly once.
C19_SwapAtExchanges ==
  (vec.pc = "done" /\ vec.swaps > 0) =>
    /\ ~vec.misuse
    /\ vec.slots[vec.swap.i] = vec.swap.slots[vec.swap.j]
    /\ vec.slots[vec.swap.j] = vec.swap.slots[vec.swap.i]
    /\ \A k \in Slots \ {vec.swap.i, vec.swap.j} : vec.slots[k] = vec.swap.slots[k]
    /\ vec.swap.i = vec.swap.j =>
         /\ vec.slots = vec.swap.slots
         /\ vec.moves = vec.swap.moves
         /\ vec.inits = vec.swap.inits
    /\ vec.swap.i # vec.swap.j => vec.moves = vec.swap.moves + 2
    /\ \A k \in Slots : (vec.slots[k] # Uninitialized) <=> k < vec.count
    /\ \A n \in 1..vec.count :
         Cardinality({k \in Slots : vec.slots[k] = vec.original[n]}) = 1

\* Two swaps have moved every element of a vector of three away from its
\* original position.
C19_Witness ==
  /\ vec.pc = "done"
  /\ vec.count = 3
  /\ vec.swaps = 2
  /\ \A n \in 1..3 : vec.slots[n - 1] # vec.original[n]

\* ---- the destination of an indirectly returned result
CallEmitted == stage \in {"Invoked", "ReturnEmitted"}

\* C21: for an ordinary or asynchronous thunk of one convention, argument
\* preparation obtains a destination address exactly when the native schema
\* of the result is indirect; the call is then emitted to memory at that
\* address, which is not null, and its result stream stays empty; otherwise
\* the call is emitted to a result stream and has no destination.
C21_DestinationObtained ==
  (ArgumentsDone /\ ~declRef.isCoroutine) =>
    /\ (thunk.indirectReturnSlot # Null) <=> (declRef.directResult = "indirect")
    /\ CallEmitted =>
         IF declRef.directResult = "indirect"
           THEN /\ thunk.call.how = "memory"
                /\ thunk.call.dest = thunk.indirectReturnSlot
                /\ thunk.call.dest # Null
                /\ thunk.result = <<>>
           ELSE /\ thunk.call.how = "explosion"
                /\ thunk.call.dest = Null
                /\ thunk.result = ResultExplosion(declRef)

\* ---- the strip order of the ordinary and coroutine conventions
\* The parts an ordinary or coroutine thunk strips before it walks the
\* declared parameters, in the order of lines 181-195.
StripOrder(d) ==
  (IF d.isWitnessMethod THEN <<"wtable", "metadata">> ELSE <<>>)
  \o (IF d.hasErrorResult THEN <<"error">> ELSE <<>>)
  \o (IF d.isCoroutine THEN <<"buffer">> ELSE <<>>)
  \o <<"receiver">>

HasCall(t) == \E n \in 1..Len(t.insts) : IsCall(t.insts[n])

\* C22: an ordinary or coroutine thunk strips, in this order, the conformance
\* table then the type descriptor from the tail (protocol requirement), the
\* error slot from the tail, installed as the caller error slot while no call
\* is emitted yet, a coroutine's single leading resume buffer, moved unchanged
\* to the front of the outgoing stream, and the receiver, which is the last
\* value then left; no declared parameter is handled before the receiver.
C22_StripOrder ==
  (ArgumentsDone /\ ~declRef.isAsync) =>
    LET d == declRef
        w == IF d.isWitnessMethod THEN 2 ELSE 0
        e == IF d.hasErrorResult THEN 1 ELSE 0
        incoming == CollectParameters(d)
        last == Len(incoming)
    IN /\ Len(thunk.order) >= Len(StripOrder(d))
       /\ SubSeq(thunk.order, 1, Len(StripOrder(d))) = StripOrder(d)
       /\ \A n \in 1..Len(thunk.order) :
            thunk.order[n] \in {"arg", "indirect", "bindings"}
              => n > Len(StripOrder(d))
       /\ d.isWitnessMethod =>
            /\ thunk.SelfWitnessTable = incoming[last]
            /\ thunk.SelfWitnessTable = Val("wtable", 0, 0)
            /\ thunk.SelfMetadata = incoming[last - 1]
            /\ thunk.SelfMetadata = Val("metadata", 0, 0)
       /\ d.hasErrorResult =>
            /\ thunk.errorResult = incoming[last - w]
            /\ thunk.errorResult = Val("errslot", 0, 0)
            /\ thunk.callerErrorResultSlot = thunk.errorResult
       /\ stage = "ArgumentsPrepared" => ~HasCall(thunk)
       /\ d.isCoroutine =>
            /\ thunk.params # <<>>
            /\ thunk.params[1] = incoming[1]
            /\ thunk.params[1] = Val("buffer", 0, 0)
       /\ thunk.selfValue = incoming[last - w - e]
       /\ thunk.selfValue = Val("self", 0, 0)

\* A coroutine thunk of a throwing protocol requirement with parameters has
\* stripped all five parts.
C22_Witness ==
  /\ stage = "ArgumentsPrepared"
  /\ declRef.isCoroutine /\ declRef.isWitnessMethod /\ declRef.hasErrorResult
  /\ Len(declRef.params) = MaxParams
  /\ SubSeq(thunk.order, 1, 5) = <<"wtable", "metadata", "error", "buffer", "receiver">>
  /\ thunk.callerErrorResultSlot = Val("errslot", 0, 0)
  /\ thunk.params[1] = Val("buffer", 0, 0)

\* ---- the load order of the asynchronous convention
\* The fields of the context frame in the order of lines 132-177.
LoadOrder(d) ==
  <<"receiver">>
  \o (IF d.isWitnessMethod THEN <<"metadata", "wtable">> ELSE <<>>)
  \o (IF d.hasErrorResult THEN <<"error">> ELSE <<>>)
  \o SeqOf(d.numIndirectResults, LAMBDA i : "indirect")
  \o SeqOf(Len(d.params), LAMBDA i : "arg")
  \o (IF d.numBindings > 0 THEN <<"bindings">> ELSE <<>>)

\* C23: an asynchronous thunk loads the local context (the receiver), the
\* type descriptor and then the witness table (protocol requirement), the
\* error-slot address, installed as the caller error slot, every
\* indirect-return address in index order, every argument in index order and
\* then the generic-binding block; the outgoing stream holds the indirect
\* returns, the arguments and the bindings, in this order, and never the
\* receiver, the witness metadata or the error slot.
C23_LoadOrder ==
  (ArgumentsDone /\ declRef.isAsync /\ ~BothConventions(declRef)) =>
    LET d == declRef IN
    /\ thunk.order = LoadOrder(d)
    /\ thunk.selfValue = AsyncField("localContext", 0)
    /\ d.isWitnessMethod =>
         /\ thunk.SelfMetadata = AsyncField("selfMetadata", 0)
         /\ thunk.SelfWitnessTable = AsyncField("selfWitnessTable", 0)
    /\ d.hasErrorResult =>
         thunk.callerErrorResultSlot = AsyncField("error", 0)
    /\ ~d.hasErrorResult => thunk.callerErrorResultSlot = Null
    /\ stage = "ArgumentsPrepared" => ~HasCall(thunk)
    /\ thunk.params =
         SeqOf(d.numIndirectResults, LAMBDA i : AsyncField("indirectReturn", i))
         \o SeqOf(Len(d.params), LAMBDA i : AsyncField("argument", i))
         \o SeqOf(d.numBindings, LAMBDA i : AsyncField("bindings", i))
    /\ \A n \in 1..Len(thunk.params) :
         thunk.params[n].k \notin {"self", "metadata", "wtable", "errslot"}

\* An asynchronous thunk of a throwing protocol requirement with indirect
\* returns, parameters and bindings has loaded every field.
C23_Witness ==
  /\ stage = "ArgumentsPrepared"
  /\ declRef.isAsync /\ ~declRef.isCoroutine
  /\ declRef.isWitnessMethod /\ declRef.hasErrorResult
  /\ declRef.numIndirectResults = MaxIndirectResults
  /\ Len(declRef.params) = MaxParams
  /\ declRef.numBindings = MaxBindings
  /\ SubSeq(thunk.order, 1, 4) = <<"receiver", "metadata", "wtable", "error">>
  /\ thunk.order[Len(thunk.order)] = "bindings"
  /\ Len(thunk.params) = MaxIndirectResults + MaxParams + MaxBindings

\* ---- the parameter walk of the ordinary and coroutine conventions
\* The number of incoming values the claim gives to a parameter of each kind.
ConsumedBy(kind) ==
  IF kind = "address" THEN 1
  ELSE IF RequiresIndirect(kind) THEN 1
  ELSE NativeSize(kind)

\* What the claim has a parameter add to the outgoing stream, from the
\* incoming values it consumed.
Reassembled(kind, consumed) ==
  IF kind = "address" THEN consumed
  ELSE IF RequiresIndirect(kind) THEN LoadAsTake(consumed[1])
  ELSE MapFromNative(kind, consumed)

\* The thunk when the walk starts, and after its first p parameters.
BeforeWalk(d) ==
  ClaimIndirectResults(d, TakeSelf(d, TransferResumeBuffer(d,
    StripErrorSlot(d, StripWitnessMetadata(d,
      [IRGenThunk(d) EXCEPT !.original = CollectParameters(d)])))))

Walked(d, p) == PrepareEachParameter(SubSeq(d.params, 1, p), 1, BeforeWalk(d))

\* C24: an ordinary or coroutine thunk walks the declared parameters but the
\* receiver in declaration order; each consumes a fixed number of incoming
\* values, which are the ones the caller passed for it: one, handed on as it
\* is, for an address; one, the address, loaded with load-as-take, for an
\* object passed indirectly; as many as the native schema has, none for an
\* empty schema, re-assembled with mapFromNative, for any other object. The
\* values then left are appended as they are, in their order, and no incoming
\* value is left unconsumed.
C24_ParameterWalk ==
  (ArgumentsDone /\ ~declRef.isAsync) =>
    LET d == declRef
        n == Len(d.params)
    IN /\ stage = "ArgumentsPrepared" =>
            LET walk == [p \in 0..n |-> Walked(d, p)] IN
            /\ \A p \in 1..n :
                 LET before == walk[p - 1]
                     after == walk[p]
                     consumed == ClaimN(before.original, ConsumedBy(d.params[p]))
                 IN /\ Len(before.original) >= ConsumedBy(d.params[p])
                    /\ after.original = DropN(before.original, ConsumedBy(d.params[p]))
                    /\ consumed = MapIntoNative(d.params[p], p)
                    /\ after.params = before.params \o Reassembled(d.params[p], consumed)
                    /\ after.taken = before.taken
                         \o (IF IsObject(d.params[p]) /\ RequiresIndirect(d.params[p])
                               THEN consumed ELSE <<>>)
            /\ thunk.params = walk[n].params \o walk[n].original
            /\ walk[n].original = SeqOf(d.numBindings, LAMBDA i : Val("bind", i, 0))
            /\ thunk.taken = walk[n].taken
            /\ LET incoming == CollectParameters(d) IN
               \A m \in 1..Len(incoming) :
                 \/ incoming[m] \in {thunk.selfValue, thunk.errorResult,
                                     thunk.SelfMetadata, thunk.SelfWitnessTable,
                                     thunk.indirectReturnSlot}
                 \/ incoming[m].k \in {"pack", "nat"}
                 \/ Occurrences(thunk.params, incoming[m]) = 1
                 \/ Occurrences(thunk.taken, incoming[m]) = 1
       /\ thunk.original = <<>>
       /\ Len(thunk.params) >= d.numBindings
       /\ d.numBindings > 0 =>
            thunk.params[Len(thunk.params)] = Val("bind", d.numBindings, 0)

\* An ordinary thunk with an indirectly passed object, a split object and
\* generic bindings has walked its parameters and passed the bindings along.
C24_Witness ==
  /\ stage = "ArgumentsPrepared"
  /\ ~declRef.isAsync /\ ~declRef.isCoroutine
  /\ declRef.params = <<"indirect", "split">>
  /\ declRef.numBindings = MaxBindings
  /\ thunk.original = <<>>
  /\ thunk.taken = <<Val("ptr", 1, 0)>>
  /\ thunk.params[Len(thunk.params)] = Val("bind", MaxBindings, 0)

\* ---- the resolution of the target
TargetDone == stage \in {"TargetResolved", "Invoked", "Aborted", "ReturnEmitted"}

\* The table lookups a thunk has emitted.
TableLookups(t) ==
  {n \in 1..Len(t.insts) :
     t.insts[n] \in {"witnessMethodValue", "virtualMethodValue"}}

\* C25: the form of dispatch follows from one thing only, whether the method
\* is declared in a protocol, and a thunk emits exactly one table lookup. For
\* a protocol requirement the target is the function in the method's entry
\* of the conformance table that arrived as witness metadata, called with the
\* original receiver; the thunk that has run called that function once with
\* the receiver and the arguments of a direct call and returned its result.
C25_WitnessDispatch ==
  TargetDone =>
    /\ thunk.callee.dispatch =
         (IF declRef.isWitnessMethod THEN "witness" ELSE "virtual")
    /\ Cardinality(TableLookups(thunk)) = 1
    /\ \A n \in TableLookups(thunk) :
         thunk.insts[n] = (IF declRef.isWitnessMethod THEN "witnessMethodValue"
                           ELSE "virtualMethodValue")
    /\ declRef.isWitnessMethod =>
         /\ thunk.callee.table = Val("wtable", 0, 0)
         /\ thunk.callee.table = thunk.SelfWitnessTable
         /\ ~thunk.callee.derived
         /\ thunk.selfValue = Val("self", 0, 0)
         /\ \A n \in 1..Len(thunk.insts) : thunk.insts[n] # "heapMetadataRef"
         /\ Returned =>
              /\ rt.calls = 1
              /\ rt.received.fn = thunk.callee
              /\ rt.received.self = Val("self", 0, 0)
              /\ rt.received.args = DirectArgs(declRef)
              /\ rt.outcome = "ok" => rt.ret = DirectResult(declRef)

\* The thunk of a protocol method with two plain arguments and no error has
\* run and returned the result of the function found in the table.
C25_Witness ==
  /\ Returned
  /\ declRef.isWitnessMethod /\ ~declRef.hasErrorResult
  /\ ~declRef.isAsync /\ ~declRef.isCoroutine
  /\ declRef.params = <<"packed", "address">>
  /\ declRef.directResult = "direct"
  /\ rt.received.fn.dispatch = "witness"
  /\ rt.received.fn.table = Val("wtable", 0, 0)
  /\ rt.received.self = Val("self", 0, 0)
  /\ rt.ret = <<Val("result", 0, 1)>>

\* C26: for a class method the metadata the method table is looked up in is
\* the receiver itself when the receiver's type is a metatype (a static
\* method) and otherwise the dynamic-type metadata derived from the
\* receiver; in both cases the receiver passed on to the target is the
\* original receiver.
C26_ClassDispatch ==
  (TargetDone /\ ~declRef.isWitnessMethod) =>
    /\ thunk.callee.dispatch = "virtual"
    /\ thunk.callee.table = thunk.selfValue
    /\ thunk.selfValue = Val("self", 0, 0)
    /\ thunk.callee.derived = ~declRef.selfIsMetatype
    /\ Cardinality({n \in 1..Len(thunk.insts) : thunk.insts[n] = "heapMetadataRef"})
         = (IF declRef.selfIsMetatype THEN 0 ELSE 1)
    /\ \A n \in 1..Len(thunk.insts) :
         thunk.insts[n] = "heapMetadataRef" =>
           n < Len(thunk.insts) /\ thunk.insts[n + 1] = "virtualMethodValue"
    /\ stage \in {"Invoked", "ReturnEmitted"} =>
         /\ thunk.call.self = Val("self", 0, 0)
         /\ thunk.call.fn = thunk.callee
    /\ Returned =>
         /\ rt.received.self = Val("self", 0, 0)
         /\ rt.received.fn.table = Val("self", 0, 0)
         /\ rt.received.fn.derived = ~declRef.selfIsMetatype

\* The thunk of a static class method has run: the lookup was made in the
\* receiver itself, which is also the receiver the target was passed.
C26_Witness ==
  /\ Returned
  /\ ~declRef.isWitnessMethod /\ declRef.selfIsMetatype
  /\ rt.received.fn = [dispatch |-> "virtual", table |-> Val("self", 0, 0),
                       derived |-> FALSE]
  /\ rt.received.self = Val("self", 0, 0)
  /\ declRef.params # <<>>

\* ---- the way a thunk of each convention ends
InstsOf(t, kinds) == {n \in 1..Len(t.insts) : t.insts[n] \in kinds}

AsyncInsts == {"setupAsync", "asyncFunctionEntry", "asyncReturn", "asyncExit"}
OrdinaryReturns == {"ret", "retVoid", "scalarReturn"}

\* The instructions at which a thunk can be suspended: the calls emitted in
\* a function that was set up as asynchronous.
SuspensionPoints(t) ==
  IF InstsOf(t, {"setupAsync"}) = {} THEN {}
  ELSE InstsOf(t, {"call", "coroutineCall"})

\* C27: a coroutine thunk passes the call through: it emits a single call,
\* which runs the target coroutine as an ordinary function, and right after
\* it an ordinary return of that call's result; it has no suspension point,
\* claims no destination for an indirect result, emits the call neither to
\* memory nor to a result stream, and has no asynchronous prologue, epilogue
\* or exit and no void or converted return. When it has run, it has returned
\* what the call returned.
C27_CoroutinePassThrough ==
  (declRef.isCoroutine /\ ~declRef.isAsync) =>
    /\ InstsOf(thunk, AsyncInsts \cup {"call", "store", "retVoid", "scalarReturn"}) = {}
    /\ SuspensionPoints(thunk) = {}
    /\ thunk.indirectReturnSlot = Null
    /\ CallEmitted =>
         /\ Cardinality(InstsOf(thunk, {"coroutineCall"})) = 1
         /\ thunk.call.how = "coroutine"
         /\ thunk.call.dest = Null
    /\ stage = "ReturnEmitted" =>
         /\ Cardinality(InstsOf(thunk, OrdinaryReturns)) = 1
         /\ thunk.insts[Len(thunk.insts)] = "ret"
         /\ thunk.insts[Len(thunk.insts) - 1] = "coroutineCall"
    /\ Returned =>
         /\ rt.calls = 1
         /\ rt.exit = "ret"
         /\ rt.ret = rt.result
         /\ rt.outcome = "ok" => rt.ret = thunk.result
    /\ stage \notin {"AssertionFailed", "Aborted"}

\* A coroutine thunk has run and returned the result of its call.
C27_Witness ==
  /\ Returned
  /\ declRef.isCoroutine
  /\ declRef.params # <<>>
  /\ rt.outcome = "ok"
  /\ rt.exit = "ret"
  /\ rt.ret = <<Val("result", 0, 1)>>

\* C28: an asynchronous thunk has no ordinary return: its body starts with
\* the asynchronous prologue and, once the return is emitted, ends with the
\* call, the asynchronous epilogue and the asynchronous exit, in this order;
\* the call is its only suspension point. An ordinary or coroutine thunk has
\* no suspension point and no asynchronous prologue, epilogue or exit.
C28_AsyncExit ==
  /\ (declRef.isAsync /\ ~declRef.isCoroutine) =>
       /\ InstsOf(thunk, OrdinaryReturns) = {}
       /\ stage # "Constructed" =>
            SubSeq(thunk.insts, 1, 2) = <<"setupAsync", "asyncFunctionEntry">>
       /\ CallEmitted =>
            /\ Cardinality(SuspensionPoints(thunk)) = 1
            /\ SuspensionPoints(thunk) = InstsOf(thunk, {"call"})
       /\ ~CallEmitted => SuspensionPoints(thunk) = {}
       /\ stage = "ReturnEmitted" =>
            /\ SubSeq(thunk.insts, Len(thunk.insts) - 2, Len(thunk.insts))
                 = <<"call", "asyncReturn", "asyncExit">>
            /\ Cardinality(InstsOf(thunk, {"asyncReturn"})) = 1
            /\ Cardinality(InstsOf(thunk, {"asyncExit"})) = 1
       /\ Returned =>
            /\ rt.calls = 1
            /\ rt.exit = "asyncExit"
            /\ rt.ret = rt.result
  /\ ~declRef.isAsync =>
       /\ InstsOf(thunk, AsyncInsts) = {}
       /\ SuspensionPoints(thunk) = {}
       /\ Returned => rt.exit \in OrdinaryReturns

\* An asynchronous thunk has run: it left through the asynchronous exit
\* after its one call.
C28_Witness ==
  /\ Returned
  /\ declRef.isAsync
  /\ declRef.directResult = "direct"
  /\ rt.calls = 1
  /\ rt.exit = "asyncExit"
  /\ thunk.insts[Len(thunk.insts) - 1] = "asyncReturn"

\* C29: an ordinary thunk returns void exactly when the result stream of the
\* call is empty, which is so for a method without result and for every
\* method whose result is returned indirectly; otherwise its return is made
\* from the result stream, and the thunk that has run returned every value of
\* the stream.
C29_OrdinaryReturn ==
  (~declRef.isAsync /\ ~declRef.isCoroutine) =>
    /\ CallEmitted =>
         (thunk.result = <<>>) <=> (declRef.directResult # "direct")
    /\ stage = "ReturnEmitted" =>
         /\ Cardinality(InstsOf(thunk, OrdinaryReturns)) = 1
         /\ (thunk.insts[Len(thunk.insts)] = "retVoid") <=> (thunk.result = <<>>)
         /\ (thunk.insts[Len(thunk.insts)] = "scalarReturn") <=> (thunk.result # <<>>)
         /\ declRef.directResult = "indirect" =>
              thunk.insts[Len(thunk.insts)] = "retVoid"
    /\ Returned =>
         /\ rt.exit = (IF thunk.result = <<>> THEN "retVoid" ELSE "scalarReturn")
         /\ Len(rt.ret) = Len(thunk.result)
         /\ rt.outcome = "ok" => rt.ret = thunk.result

\* An ordinary thunk of a method whose result is returned indirectly has run
\* and returned void, the result being in the caller's destination.
C29_Witness ==
  /\ Returned
  /\ ~declRef.isAsync /\ ~declRef.isCoroutine
  /\ declRef.directResult = "indirect"
  /\ rt.outcome = "ok"
  /\ rt.exit = "retVoid"
  /\ rt.ret = <<>>
  /\ rt.mem[Val("sret", 0, 0)] = Val("result", 0, 1)

\* ---- the bounds of init(unfold:with:)
\* C30: init(unfold:with:) initializes and deinitializes only elements at
\* indices inside 0 ..< count, touches no memory out of bounds or in the
\* wrong state, and when it has returned every index of 0 ..< count was
\* initialized exactly once and none deinitialized, for every static count,
\* 0 and 1 included.
C30_UnfoldInBounds ==
  vec.op = "unfold" =>
    /\ \A k \in Slots :
         k >= vec.count => (vec.inits[k] = 0 /\ vec.deinits[k] = 0)
    /\ ~vec.misuse
    /\ (vec.pc = "done" /\ vec.swaps = 0) =>
         \A k \in Slots :
           /\ vec.inits[k] = (IF k < vec.count THEN 1 ELSE 0)
           /\ vec.deinits[k] = 0

====
